---- MODULE Spec2Model ----
(***************************************************************************)
(* Model of the subst crate: shell-like variable substitution.             *)
(*                                                                         *)
(* Two parser/expander pairs live in the repository and both are modelled: *)
(*   - src/lib.rs: TemplateParser / TemplateExpander, used by substitute() *)
(*     and substitute_bytes();                                             *)
(*   - src/template/raw/{parse,expand}.rs: raw::Template, used by          *)
(*     Template::from_str() and Template::expand().                        *)
(*                                                                         *)
(* A source is a sequence of bytes (integers 0..255).  Source positions    *)
(* are 0-based as in the code; At and Slice convert to TLA+ sequences.     *)
(***************************************************************************)
EXTENDS Integers, Sequences, FiniteSets, TLC

(***************************************************************************)
(* Bytes the code names.                                                   *)
(***************************************************************************)
Dollar == 36

Backslash == 92

LBrace == 123

RBrace == 125

Colon == 58

Star == 42

Underscore == 95

(* Bytes of the inputs of the model: the letters a, b, v, w and "!", the   *)
(* UTF-8 bytes of U+00E9 (two bytes) and of U+20AC (three bytes), and a    *)
(* byte that occurs in no UTF-8 text.                                      *)
InputByte ==
  [a |-> 97, b |-> 98, v |-> 118, w |-> 119, bang |-> 33,
   e1 |-> 195, e2 |-> 169, u1 |-> 226, u2 |-> 130, u3 |-> 172, bad |-> 255]

ChA == InputByte.a

ChB == InputByte.b

ChV == InputByte.v

ChW == InputByte.w

Bang == InputByte.bang

EAcute == <<InputByte.e1, InputByte.e2>>

Euro == <<InputByte.u1, InputByte.u2, InputByte.u3>>

BadByte == InputByte.bad

(***************************************************************************)
(* Bounds of the model.                                                    *)
(***************************************************************************)
MaxTokens == 3

MaxUtf8Tokens == 3

MaxBufTokens == 1

MaxLineTokens == 3

MaxEscLen == 3

MaxStepTokens == 3

MaxBufs == 2

MaxAllocs == 2

MaxExpands == 2

(***************************************************************************)
(* Slices.                                                                 *)
(***************************************************************************)
At(s, i) == s[i + 1]

Slice(s, lo, hi) == SubSeq(s, lo + 1, hi)

(* memchr::memchr2 / memchr3 / Iterator::position on source[lo..hi]:      *)
(* the absolute index of the first byte in the set, or -1 for None.       *)
FindFirst(s, lo, hi, bytes) ==
  IF \E i \in lo..(hi - 1) : At(s, i) \in bytes
    THEN CHOOSE i \in lo..(hi - 1) :
           /\ At(s, i) \in bytes
           /\ \A j \in lo..(i - 1) : At(s, j) \notin bytes
    ELSE -1

FindFirstNot(s, lo, hi, bytes) ==
  IF \E i \in lo..(hi - 1) : At(s, i) \notin bytes
    THEN CHOOSE i \in lo..(hi - 1) :
           /\ At(s, i) \notin bytes
           /\ \A j \in lo..(i - 1) : At(s, j) \in bytes
    ELSE -1

(* u8::is_ascii_digit, u8::is_ascii_alphanumeric *)
is_ascii_digit(c) == c \in 48..57

is_ascii_alphanumeric(c) == c \in (48..57) \cup (65..90) \cup (97..122)

AsciiAlnum == (48..57) \cup (65..90) \cup (97..122)

(***************************************************************************)
(* Errors (src/error.rs).  One record shape for the five kinds; the fields *)
(* a kind does not have keep their filler value.                           *)
(***************************************************************************)
NoChar == [tag |-> "None", bytes |-> << >>]

Char(bytes) == [tag |-> "Char", bytes |-> bytes]

Byte(b) == [tag |-> "Byte", bytes |-> <<b>>]

NoError ==
  [kind |-> "None", position |-> 0, len |-> 0, character |-> NoChar,
   name |-> << >>, expected |-> ""]

InvalidEscapeSequence(position, character) ==
  [NoError EXCEPT !.kind = "InvalidEscapeSequence", !.position = position,
                  !.character = character]

MissingVariableName(position, len) ==
  [NoError EXCEPT !.kind = "MissingVariableName", !.position = position,
                  !.len = len]

UnexpectedCharacter(position, character, expected) ==
  [NoError EXCEPT !.kind = "UnexpectedCharacter", !.position = position,
                  !.character = character, !.expected = expected]

MissingClosingBrace(position) ==
  [NoError EXCEPT !.kind = "MissingClosingBrace", !.position = position]

NoSuchVariable(position, name) ==
  [NoError EXCEPT !.kind = "NoSuchVariable", !.position = position,
                  !.name = name]

ParseErrorKinds ==
  {"InvalidEscapeSequence", "MissingVariableName", "UnexpectedCharacter",
   "MissingClosingBrace"}

(* CharOrByte::source_len: len_utf8 of a Char, 1 for a Byte *)
CharOrByte_source_len(self) ==
  IF self.tag = "Char" THEN Len(self.bytes) ELSE 1

(* Mutant: every payload counts as one byte. *)
Error_source_range_one_byte(self) ==
  LET char_len == IF self.character.tag = "None" THEN 0 ELSE 1
      len == CASE self.kind = "InvalidEscapeSequence" -> 1 + char_len
               [] self.kind = "MissingVariableName" -> self.len
               [] self.kind = "UnexpectedCharacter" -> 1
               [] self.kind = "MissingClosingBrace" -> 1
               [] self.kind = "NoSuchVariable" -> Len(self.name)
  IN  [start |-> self.position, end |-> self.position + len]

(* Error::source_range *)
Error_source_range(self) ==
  LET char_len == IF self.character.tag = "None" THEN 0
                  ELSE CharOrByte_source_len(self.character)
      len == CASE self.kind = "InvalidEscapeSequence" -> 1 + char_len
               [] self.kind = "MissingVariableName" -> self.len
               [] self.kind = "UnexpectedCharacter" ->
                    CharOrByte_source_len(self.character)
               [] self.kind = "MissingClosingBrace" -> 1
               [] self.kind = "NoSuchVariable" -> Len(self.name)
  IN  [start |-> self.position, end |-> self.position + len]

(***************************************************************************)
(* Results.  tag is "Ok", "Err" or "Panic" (a Rust panic: an index out of  *)
(* bounds); val is the Ok value, err the Err value.                        *)
(***************************************************************************)
Ok(val) == [tag |-> "Ok", val |-> val, err |-> NoError]

Err(e) == [tag |-> "Err", val |-> << >>, err |-> e]

Panic == [tag |-> "Panic", val |-> << >>, err |-> NoError]

(***************************************************************************)
(* std::str::from_utf8 on the (at most 4) bytes at index: the byte length  *)
(* of the scalar value that starts there, 0 when none does.                *)
(***************************************************************************)
IsCont(s, i) == i < Len(s) /\ At(s, i) \in 128..191

Utf8LenAt(s, index) ==
  LET b0 == At(s, index)
      b1 == At(s, index + 1)
  IN  IF b0 < 128 THEN 1
      ELSE IF b0 \in 194..223 /\ IsCont(s, index + 1) THEN 2
      ELSE IF /\ b0 \in 224..239
              /\ IsCont(s, index + 1) /\ IsCont(s, index + 2)
              /\ (b0 = 224 => b1 >= 160)
              /\ (b0 = 237 => b1 <= 159) THEN 3
      ELSE IF /\ b0 \in 240..244
              /\ IsCont(s, index + 1) /\ IsCont(s, index + 2)
              /\ IsCont(s, index + 3)
              /\ (b0 = 240 => b1 >= 144)
              /\ (b0 = 244 => b1 <= 143) THEN 4
      ELSE 0

(* lib.rs get_maybe_char_at / valid_utf8_prefix *)
lib_get_maybe_char_at(data, index) ==
  LET n == Utf8LenAt(data, index)
  IN  IF n > 0 THEN Char(Slice(data, index, index + n))
      ELSE Byte(At(data, index))

(* parse.rs get_maybe_char_at / valid_utf8_prefix *)
get_maybe_char_at(data, index) ==
  LET n == Utf8LenAt(data, index)
  IN  IF n > 0 THEN Char(Slice(data, index, index + n))
      ELSE Byte(At(data, index))

Escapable == {Backslash, Dollar, LBrace, RBrace, Colon}

(* Mutant: the arm for the closing brace is missing. *)
lib_unescape_one_no_brace(source, position) ==
  IF position = Len(source) - 1
    THEN Err(InvalidEscapeSequence(position, NoChar))
    ELSE IF At(source, position + 1) \in Escapable \ {RBrace}
      THEN Ok(At(source, position + 1))
      ELSE Err(InvalidEscapeSequence(position,
                 lib_get_maybe_char_at(source, position + 1)))

(* lib.rs unescape_one *)
lib_unescape_one(source, position) ==
  IF position = Len(source) - 1
    THEN Err(InvalidEscapeSequence(position, NoChar))
    ELSE IF At(source, position + 1) \in Escapable
      THEN Ok(At(source, position + 1))
      ELSE Err(InvalidEscapeSequence(position,
                 lib_get_maybe_char_at(source, position + 1)))

(* Mutant: the arm for the colon is missing. *)
unescape_one_no_colon(source, position) ==
  IF position = Len(source) - 1
    THEN Err(InvalidEscapeSequence(position, NoChar))
    ELSE IF At(source, position + 1) \in Escapable \ {Colon}
      THEN Ok(At(source, position + 1))
      ELSE Err(InvalidEscapeSequence(position,
                 get_maybe_char_at(source, position + 1)))

(* parse.rs unescape_one *)
unescape_one(source, position) ==
  IF position = Len(source) - 1
    THEN Err(InvalidEscapeSequence(position, NoChar))
    ELSE IF At(source, position + 1) \in Escapable
      THEN Ok(At(source, position + 1))
      ELSE Err(InvalidEscapeSequence(position,
                 get_maybe_char_at(source, position + 1)))

(***************************************************************************)
(* Parts of a parsed template.  One record shape for both parsers:         *)
(*   Literal      start..end is the range of the text in the source        *)
(*   EscapedChar  value is the unescaped byte                              *)
(*   Variable     name_start..name_end is the range of the name, default   *)
(*                is the Option of the nested parts, and (lib.rs only)     *)
(*                start..end is part_start..part_end                       *)
(***************************************************************************)
None == [some |-> FALSE, val |-> << >>]

Some(val) == [some |-> TRUE, val |-> val]

NoPart ==
  [kind |-> "None", start |-> 0, end |-> 0, value |-> 0,
   name_start |-> 0, name_end |-> 0, default |-> None]

LiteralTemplate(start, end) ==
  [NoPart EXCEPT !.kind = "Literal", !.start = start, !.end = end]

EscapedCharTemplate(value) ==
  [NoPart EXCEPT !.kind = "EscapedChar", !.value = value]

LibVariable(part_start, part_end, name_start, name_end, default) ==
  [NoPart EXCEPT !.kind = "Variable", !.start = part_start, !.end = part_end,
                 !.name_start = name_start, !.name_end = name_end,
                 !.default = default]

(* lib.rs ByteLength::size *)
ByteLength_size(part) ==
  CASE part.kind = "Literal" -> part.end - part.start
    [] part.kind = "Variable" -> part.end - part.start
    [] part.kind = "EscapedChar" -> 2

(***************************************************************************)
(* src/lib.rs: TemplateParser.  self is the parser's                       *)
(* allow_variable_name_starting_with_number flag.                          *)
(***************************************************************************)
AllDigits(name) == \A i \in 1..Len(name) : is_ascii_digit(name[i])

(* Mutant: without the flag, no name may start with a digit. *)
TemplateParser_check_variable_name_no_digit_start(self, finger, name) ==
  IF self THEN Ok(<< >>)
  ELSE IF is_ascii_digit(name[1])
    THEN Err(UnexpectedCharacter(finger, Byte(name[1]), "digit"))
    ELSE Ok(<< >>)

TemplateParser_check_variable_name_for_validity(self, finger, name) ==
  IF self THEN Ok(<< >>)
  ELSE IF is_ascii_digit(name[1])
    THEN IF AllDigits(name)
      THEN Ok(<< >>)
      ELSE Err(UnexpectedCharacter(finger, Byte(name[1]), "digit"))
    ELSE Ok(<< >>)

(* lib.rs find_non_escaped: the loop, from the given finger *)
RECURSIVE find_non_escaped_loop(_, _, _)
find_non_escaped_loop(needle, haystack, finger) ==
  IF finger >= Len(haystack) THEN -1
  ELSE LET at == FindFirst(haystack, finger, Len(haystack), {Backslash, needle})
           candidate == at - finger
       IN  IF at = -1 THEN -1
           ELSE IF At(haystack, at) = Backslash
             THEN IF candidate = Len(haystack) - 1 THEN -1
                  ELSE find_non_escaped_loop(needle, haystack, finger + candidate + 2)
             ELSE finger + candidate

find_non_escaped(needle, haystack) == find_non_escaped_loop(needle, haystack, 0)

NameBytes == AsciiAlnum \cup {Underscore}

RECURSIVE TemplateParser_parse_range_loop(_, _, _, _, _)
RECURSIVE TemplateParser_parse_braced_variable(_, _, _)

TemplateParser_parse_variable(self, source, finger) ==
  IF finger = Len(source) THEN Err(MissingVariableName(finger, 1))
  ELSE IF finger + 1 >= Len(source) THEN Panic   \* source[finger + 1]
  ELSE IF At(source, finger + 1) = LBrace
    THEN TemplateParser_parse_braced_variable(self, source, finger)
    ELSE LET x == FindFirstNot(source, finger + 1, Len(source), NameBytes)
             name_end == IF x = -1 THEN Len(source) ELSE x
             name == Slice(source, finger + 1, name_end)
             valid == TemplateParser_check_variable_name_for_validity(self, finger, name)
         IN  IF x = finger + 1 THEN Err(MissingVariableName(finger, 1))
             ELSE IF valid.tag # "Ok" THEN valid
             ELSE Ok(LibVariable(finger, name_end, finger + 1, name_end, None))

TemplateParser_parse_template_one_step(self, finger, source, range) ==
  IF finger >= range.end THEN Ok(<< >>)
  ELSE LET c == At(source, finger)
       IN  IF c = Dollar
             THEN LET v == TemplateParser_parse_variable(self, source, finger)
                  IN  IF v.tag # "Ok" THEN v ELSE Ok(<<v.val>>)
           ELSE IF c = Backslash
             THEN LET e == lib_unescape_one(source, finger)
                  IN  IF e.tag # "Ok" THEN e
                      ELSE Ok(<<EscapedCharTemplate(e.val)>>)
           ELSE LET x == FindFirst(source, finger, range.end, {Dollar, Backslash})
                IN  IF x # -1 THEN Ok(<<LiteralTemplate(finger, x)>>)
                    ELSE Ok(<<LiteralTemplate(finger, range.end)>>)

TemplateParser_parse_range_loop(self, source, range, finger, parts) ==
  LET step == TemplateParser_parse_template_one_step(self, finger, source, range)
  IN  IF step.tag # "Ok" THEN step
      ELSE IF step.val = << >> THEN Ok(parts)
      ELSE TemplateParser_parse_range_loop(self, source, range,
             finger + ByteLength_size(step.val[1]), Append(parts, step.val[1]))

TemplateParser_parse_template_range(self, source, range) ==
  TemplateParser_parse_range_loop(self, source, range, range.start, << >>)

TemplateParser_parse_braced_variable(self, source, finger) ==
  LET name_start == finger + 2
      x == FindFirstNot(source, name_start, Len(source), NameBytes)
      name_end == IF x = -1 THEN Len(source) ELSE x
      name == Slice(source, name_start, name_end)
      valid == TemplateParser_check_variable_name_for_validity(self, finger, name)
      close == find_non_escaped(RBrace, Slice(source, finger, Len(source)))
      end == finger + close
      default_value ==
        TemplateParser_parse_template_range(self, source,
          [start |-> name_end + 1, end |-> end])
  IN  IF name_start >= Len(source) THEN Err(MissingVariableName(finger, 2))
      ELSE IF x = name_start THEN Err(MissingVariableName(finger, 2))
      ELSE IF name_end = Len(source) THEN Err(MissingClosingBrace(finger + 1))
      ELSE IF At(source, name_end) = RBrace
        THEN IF valid.tag # "Ok" THEN valid
             ELSE Ok(LibVariable(finger, name_end + 1, name_start, name_end, None))
      ELSE IF At(source, name_end) # Colon
        THEN Err(UnexpectedCharacter(name_end,
                   lib_get_maybe_char_at(source, name_end), "brace_or_colon"))
      ELSE IF close = -1 THEN Err(MissingClosingBrace(finger + 1))
      ELSE IF default_value.tag # "Ok" THEN default_value
      ELSE IF valid.tag # "Ok" THEN valid
      ELSE Ok(LibVariable(finger, end + 1, name_start, name_end,
                          Some(default_value.val)))

(* TemplateParser::parse and TemplateParser::parse_from_bytes *)
TemplateParser_parse(self, source) ==
  TemplateParser_parse_template_range(self, source,
    [start |-> 0, end |-> Len(source)])

(***************************************************************************)
(* src/lib.rs: TemplateExpander.  self is the expander:                    *)
(* [variables, silent_missing_variables].  The expansion state st is the   *)
(* output vector, the names passed to VariableMap::get so far (lookups),   *)
(* and the error that stopped the expansion, if any.                       *)
(***************************************************************************)
(* Mutant: an expander is silent unless told otherwise. *)
TemplateExpander_new_silent(vars) ==
  [variables |-> vars, silent_missing_variables |-> TRUE]

TemplateExpander_new(vars) ==
  [variables |-> vars, silent_missing_variables |-> FALSE]

set_silent_missing_variables(self, value) ==
  [self EXCEPT !.silent_missing_variables = value]

NewOutput == [output |-> << >>, lookups |-> << >>, err |-> NoError]

Failed(st) == st.err.kind # "None"

(* VariableMap::get on a map with byte-string keys *)
VariableMap_get(vars, key) ==
  IF key \in DOMAIN vars THEN Some(vars[key]) ELSE None

RECURSIVE TemplateExpander_expand_template_loop(_, _, _, _, _)

(* Mutant: the value is scanned for escapes before it is written. *)
TemplateExpander_expand_template_part_variable_rescanned(self, source, variable, st) ==
  LET name == Slice(source, variable.name_start, variable.name_end)
      value == VariableMap_get(self.variables, name)
      looked == [st EXCEPT !.lookups = Append(@, name)]
  IN  IF ~value.some /\ ~variable.default.some
        THEN IF ~self.silent_missing_variables
               THEN [looked EXCEPT !.err = NoSuchVariable(variable.name_start, name)]
               ELSE looked
      ELSE IF value.some
        THEN [looked EXCEPT !.output =
                @ \o SelectSeq(value.val, LAMBDA b : b # Backslash)]
      ELSE TemplateExpander_expand_template_loop(self, source,
             variable.default.val, 1, looked)

TemplateExpander_expand_template_part_variable(self, source, variable, st) ==
  LET name == Slice(source, variable.name_start, variable.name_end)
      value == VariableMap_get(self.variables, name)
      looked == [st EXCEPT !.lookups = Append(@, name)]
  IN  IF ~value.some /\ ~variable.default.some
        THEN IF ~self.silent_missing_variables
               THEN [looked EXCEPT !.err = NoSuchVariable(variable.name_start, name)]
               ELSE looked
      ELSE IF value.some
        THEN [looked EXCEPT !.output = @ \o value.val]
      ELSE TemplateExpander_expand_template_loop(self, source,
             variable.default.val, 1, looked)

(* Mutant: the literal is copied without its last byte. *)
TemplateExpander_expand_template_part_short(self, source, tp, st) ==
  CASE tp.kind = "Literal" ->
         [st EXCEPT !.output = @ \o Slice(source, tp.start, tp.end - 1)]
    [] tp.kind = "Variable" ->
         TemplateExpander_expand_template_part_variable(self, source, tp, st)
    [] tp.kind = "EscapedChar" ->
         [st EXCEPT !.output = Append(@, tp.value)]

TemplateExpander_expand_template_part(self, source, tp, st) ==
  CASE tp.kind = "Literal" ->
         [st EXCEPT !.output = @ \o Slice(source, tp.start, tp.end)]
    [] tp.kind = "Variable" ->
         TemplateExpander_expand_template_part_variable(self, source, tp, st)
    [] tp.kind = "EscapedChar" ->
         [st EXCEPT !.output = Append(@, tp.value)]

TemplateExpander_expand_template_loop(self, source, t, i, st) ==
  IF i > Len(t) THEN st
  ELSE LET next == TemplateExpander_expand_template_part(self, source, t[i], st)
       IN  IF Failed(next) THEN next
           ELSE TemplateExpander_expand_template_loop(self, source, t, i + 1, next)

TemplateExpander_expand_template_impl(self, source, t, st) ==
  TemplateExpander_expand_template_loop(self, source, t, 1, st)

(* expand_template -> expand_template_parts_vec -> evaluate_template_to_bytes *)
TemplateExpander_expand_template(self, source, t) ==
  TemplateExpander_expand_template_impl(self, source, t, NewOutput)

(***************************************************************************)
(* src/template/raw/parse.rs: raw::Template.  A variable of this parser    *)
(* keeps the range of its name and its default only.                       *)
(***************************************************************************)
(* Mutant: a literal that stops one byte early. *)
Literal_cut_short(start, end) ==
  [NoPart EXCEPT !.kind = "Literal", !.start = start,
                 !.end = IF end > start THEN end - 1 ELSE end]

Literal(start, end) ==
  [NoPart EXCEPT !.kind = "Literal", !.start = start, !.end = end]

EscapedByte(value) ==
  [NoPart EXCEPT !.kind = "EscapedChar", !.value = value]

Variable(name_start, name_end, default) ==
  [NoPart EXCEPT !.kind = "Variable", !.name_start = name_start,
                 !.name_end = name_end, !.default = default]

(* parse.rs find_closing_brace: the loop, from the given finger and level *)
RECURSIVE find_closing_brace_loop(_, _, _)
find_closing_brace_loop(haystack, finger, nested) ==
  IF finger >= Len(haystack) THEN -1
  ELSE LET at == FindFirst(haystack, finger, Len(haystack), {Backslash, LBrace, RBrace})
           next == at - finger
       IN  IF at = -1 THEN -1
           ELSE IF At(haystack, at) = Backslash
             THEN IF next + 1 = Len(haystack) THEN -1
                  ELSE find_closing_brace_loop(haystack, finger + next + 2, nested)
           ELSE IF At(haystack, at) = LBrace
             THEN IF next = Len(haystack) - 1 THEN -1
                  ELSE find_closing_brace_loop(haystack, finger + next + 1, nested + 1)
           ELSE IF nested - 1 = 0 THEN finger + next
           ELSE find_closing_brace_loop(haystack, finger + next + 1, nested - 1)

find_closing_brace(haystack) == find_closing_brace_loop(haystack, 0, 0)

RECURSIVE Template_parse_loop(_, _, _)
RECURSIVE Variable_parse_braced(_, _)

(* Variable::parse: Ok([variable, end]) *)
Variable_parse(source, finger) ==
  IF finger + 1 >= Len(source) THEN Err(MissingVariableName(finger, 1))
  ELSE IF At(source, finger + 1) = LBrace
    THEN Variable_parse_braced(source, finger)
  ELSE IF At(source, finger + 1) = Star
    THEN Ok([variable |-> Variable(finger + 1, finger + 2, None),
             end |-> finger + 2])
  ELSE LET x == FindFirstNot(source, finger + 1, Len(source), NameBytes)
           name_end == IF x = -1 THEN Len(source) ELSE x
       IN  IF x = finger + 1 THEN Err(MissingVariableName(finger, 1))
           ELSE Ok([variable |-> Variable(finger + 1, name_end, None),
                    end |-> name_end])

Template_parse_loop(source, finger, parts) ==
  IF finger >= Len(source) THEN Ok(parts)
  ELSE LET x == FindFirst(source, finger, Len(source), {Dollar, Backslash})
           next == IF x = -1 THEN Len(source) ELSE x
           parts1 == IF next # finger
                       THEN Append(parts, Literal(finger, next))
                       ELSE parts
       IN  IF next = Len(source) THEN Ok(parts1)
           ELSE IF At(source, next) = Backslash
             THEN LET value == unescape_one(source, next)
                  IN  IF value.tag # "Ok" THEN value
                      ELSE Template_parse_loop(source, next + 2,
                             Append(parts1, EscapedByte(value.val)))
           ELSE LET v == Variable_parse(source, next)
                IN  IF v.tag # "Ok" THEN v
                    ELSE Template_parse_loop(source, v.val.end,
                           Append(parts1, v.val.variable))

(* raw::Template::parse(source, start) *)
(* Mutant: the scan pushes a literal for the text before the first "$" or  *)
(* "\" even when there is none.                                            *)
Template_parse_empty_literal(source, start) ==
  Template_parse_loop(source, start,
    IF FindFirst(source, start, Len(source), {Dollar, Backslash}) = start
      THEN <<Literal(start, start)>> ELSE << >>)

Template_parse(source, start) == Template_parse_loop(source, start, << >>)

(* Mutant: the default is parsed as a text of its own, from offset 0. *)
Variable_parse_braced_relative(source, finger) ==
  LET name_start == finger + 2
      x == FindFirstNot(source, name_start, Len(source), NameBytes \cup {Star})
      name_end == IF x = -1 THEN Len(source) ELSE x
      close == find_closing_brace(Slice(source, finger, Len(source)))
      end == finger + close
      default == Template_parse(Slice(source, name_end + 1, end), 0)
  IN  IF name_start >= Len(source) THEN Err(MissingVariableName(finger, 2))
      ELSE IF x = name_start THEN Err(MissingVariableName(finger, 2))
      ELSE IF name_end = Len(source) THEN Err(MissingClosingBrace(finger + 1))
      ELSE IF /\ name_end - name_start > 1
              /\ \E i \in name_start..(name_end - 1) : At(source, i) = Star
        THEN Err(MissingVariableName(finger, name_end - name_start))
      ELSE IF At(source, name_end) = RBrace
        THEN Ok([variable |-> Variable(name_start, name_end, None),
                 end |-> name_end + 1])
      ELSE IF At(source, name_end) # Colon
        THEN Err(UnexpectedCharacter(name_end,
                   get_maybe_char_at(source, name_end), "brace_or_colon"))
      ELSE IF close = -1 THEN Err(MissingClosingBrace(finger + 1))
      ELSE IF default.tag # "Ok" THEN default
      ELSE Ok([variable |-> Variable(name_start, name_end, Some(default.val)),
               end |-> end + 1])

Variable_parse_braced(source, finger) ==
  LET name_start == finger + 2
      x == FindFirstNot(source, name_start, Len(source), NameBytes \cup {Star})
      name_end == IF x = -1 THEN Len(source) ELSE x
      close == find_closing_brace(Slice(source, finger, Len(source)))
      end == finger + close
      default == Template_parse(Slice(source, 0, end), name_end + 1)
  IN  IF name_start >= Len(source) THEN Err(MissingVariableName(finger, 2))
      ELSE IF x = name_start THEN Err(MissingVariableName(finger, 2))
      ELSE IF name_end = Len(source) THEN Err(MissingClosingBrace(finger + 1))
      ELSE IF /\ name_end - name_start > 1
              /\ \E i \in name_start..(name_end - 1) : At(source, i) = Star
        THEN Err(MissingVariableName(finger, name_end - name_start))
      ELSE IF At(source, name_end) = RBrace
        THEN Ok([variable |-> Variable(name_start, name_end, None),
                 end |-> name_end + 1])
      ELSE IF At(source, name_end) # Colon
        THEN Err(UnexpectedCharacter(name_end,
                   get_maybe_char_at(source, name_end), "brace_or_colon"))
      ELSE IF close = -1 THEN Err(MissingClosingBrace(finger + 1))
      ELSE IF default.tag # "Ok" THEN default
      ELSE Ok([variable |-> Variable(name_start, name_end, Some(default.val)),
               end |-> end + 1])

(***************************************************************************)
(* src/template/raw/expand.rs: impl Expand for Template / Variable.        *)
(***************************************************************************)
RECURSIVE Template_expand_loop(_, _, _, _, _)

(* Mutant: NoSuchVariable points at the byte before the name. *)
Variable_expand_at_sigil(self, st, source, vars) ==
  LET name == Slice(source, self.name_start, self.name_end)
      value == VariableMap_get(vars, name)
      looked == [st EXCEPT !.lookups = Append(@, name)]
  IN  IF value.some
        THEN [looked EXCEPT !.output = @ \o value.val]
      ELSE IF self.default.some
        THEN Template_expand_loop(self.default.val, 1, looked, source, vars)
      ELSE [looked EXCEPT !.err = NoSuchVariable(self.name_start - 1, name)]

Variable_expand(self, st, source, vars) ==
  LET name == Slice(source, self.name_start, self.name_end)
      value == VariableMap_get(vars, name)
      looked == [st EXCEPT !.lookups = Append(@, name)]
  IN  IF value.some
        THEN [looked EXCEPT !.output = @ \o value.val]
      ELSE IF self.default.some
        THEN Template_expand_loop(self.default.val, 1, looked, source, vars)
      ELSE [looked EXCEPT !.err = NoSuchVariable(self.name_start, name)]

Template_expand_loop(parts, i, st, source, vars) ==
  IF i > Len(parts) THEN st
  ELSE LET part == parts[i]
           next ==
             CASE part.kind = "Literal" ->
                    [st EXCEPT !.output = @ \o Slice(source, part.start, part.end)]
               [] part.kind = "EscapedChar" ->
                    [st EXCEPT !.output = Append(@, part.value)]
               [] part.kind = "Variable" ->
                    Variable_expand(part, st, source, vars)
       IN  IF Failed(next) THEN next
           ELSE Template_expand_loop(parts, i + 1, next, source, vars)

(* raw::Template::expand *)
Template_expand(parts, st, source, vars) ==
  Template_expand_loop(parts, 1, st, source, vars)

(***************************************************************************)
(* The entry points.  Each returns the parse result (template), the        *)
(* result handed to the caller, and the names that were passed to          *)
(* VariableMap::get during the call.                                       *)
(***************************************************************************)
NoResult == [tag |-> "None", output |-> << >>, err |-> NoError]

Outcome(st) ==
  IF Failed(st)
    THEN [tag |-> "Err", output |-> << >>, err |-> st.err]
    ELSE [tag |-> "Ok", output |-> st.output, err |-> NoError]

ParseOutcome(parsed) ==
  [tag |-> parsed.tag, output |-> << >>, err |-> parsed.err]

(* The rest of substitute and substitute_bytes once the source is parsed:   *)
(* the ? on the parse result, then the result of the expansion.            *)
Substituted(parsed, expanded) ==
  IF parsed.tag # "Ok"
    THEN [template |-> parsed, result |-> ParseOutcome(parsed),
          lookups |-> << >>]
    ELSE [template |-> parsed, result |-> Outcome(expanded),
          lookups |-> expanded.lookups]

(* lib.rs substitute: let template = TemplateParser::default().parse(..)   *)
(* is bound once, then expanded.                                           *)
substitute(source, vars) ==
  CHOOSE r \in
    { Substituted(parsed,
        TemplateExpander_expand_template(TemplateExpander_new(vars),
          source, parsed.val)) :
      parsed \in { TemplateParser_parse(TRUE, source) } } : TRUE

(* lib.rs substitute_bytes *)
substitute_bytes(source, vars) ==
  CHOOSE r \in
    { Substituted(parsed,
        TemplateExpander_expand_template_impl(TemplateExpander_new(vars),
          source, parsed.val, NewOutput)) :
      parsed \in { TemplateParser_parse_template_range(TRUE, source,
                     [start |-> 0, end |-> Len(source)]) } } : TRUE

(* template/mod.rs Template::from_str *)
Template_from_str(source) == Template_parse(source, 0)

(* template/mod.rs Template::expand *)
Template_expand_string(template, source, vars) ==
  LET st == Template_expand(template.val, NewOutput, source, vars)
  IN  [result |-> Outcome(st), lookups |-> st.lookups]

(* core::str::from_utf8(s).is_ok(): a &str source is valid UTF-8.  Every  *)
(* byte that is no continuation byte starts a scalar value, which ends     *)
(* where the next such byte or the end of s is; s starts with such a byte. *)
is_utf8(s) ==
  /\ Len(s) > 0 => ~IsCont(s, 0)
  /\ { i \in 0..(Len(s) - 1) :
         /\ ~IsCont(s, i)
         /\ ~(Utf8LenAt(s, i) > 0 /\ ~IsCont(s, i + Utf8LenAt(s, i))) } = {}

(* str::is_char_boundary: the start, the end, or no continuation byte *)
is_char_boundary(s, index) ==
  \/ index = 0
  \/ index = Len(s)
  \/ /\ index < Len(s)
     /\ ~(At(s, index) >= 128 /\ At(s, index) < 192)

(***************************************************************************)
(* The inputs of the model: sources made of at most MaxTokens tokens,      *)
(* bare, inside "${" .. "}" and inside "${a:" .. "}"; and the maps over    *)
(* the names a and b.                                                      *)
(***************************************************************************)
Tokens ==
  { <<Dollar>>, <<LBrace>>, <<RBrace>>, <<Colon>>, <<Backslash>>, <<Star>>,
    <<ChA>>, <<Bang>>, <<Dollar, ChB>>, <<Dollar, LBrace, ChB, Colon>> }

RECURSIVE TokenSeqs(_)
TokenSeqs(n) ==
  IF n = 0 THEN { << >> }
  ELSE LET shorter == TokenSeqs(n - 1)
       IN  shorter \cup { s \o t : s \in shorter, t \in Tokens }

Bare == TokenSeqs(MaxTokens)

Braced == { <<Dollar, LBrace>> \o s \o <<RBrace>> : s \in Bare }

Wrapped == { <<Dollar, LBrace, ChA, Colon>> \o s \o <<RBrace>> : s \in Bare }

Sources == Bare \cup Braced \cup Wrapped

Names == { <<ChA>>, <<ChB>> }

ValueOf(name) == IF name = <<ChA>> THEN <<ChV>> ELSE <<ChW, RBrace>>

VariableMaps == { [n \in S |-> ValueOf(n)] : S \in SUBSET Names }

(***************************************************************************)
(* The state machine: one call of an entry point on the chosen input.      *)
(*   source, variables   the arguments of the call                         *)
(*   call                the last call that returned a result              *)
(*   template            the parsed template the caller holds              *)
(*   result, lookups     what the call returned, and the names it passed   *)
(*                       to VariableMap::get                               *)
(*   silent              the silent_missing_variables of the expander used *)
(*   range               the last value of Error::source_range             *)
(*   heap, bufs, strings, history   the owned templates (see below)        *)
(*   line, highlighting  the last values of Error::source_line and         *)
(*                       Error::source_highlighting                        *)
(*   steps, parser       the results of the calls of substitute_one so     *)
(*                       far, and the flag of the TemplateParser used      *)
(***************************************************************************)
VARIABLES source, variables, call, template, result, lookups, silent, range,
          heap, bufs, strings, history, line, highlighting, steps, parser

vars ==
  <<source, variables, call, template, result, lookups, silent, range,
    heap, bufs, strings, history, line, highlighting, steps, parser>>

owned == <<heap, bufs, strings, history>>

rendering == <<line, highlighting>>

stepping == <<steps, parser>>

NoTemplate == [tag |-> "None", val |-> << >>, err |-> NoError]

(* The heap blocks of the owned sources, the owned templates and the       *)
(* strings handed back by into_source, before any of them exists.          *)
Addrs == 1..MaxAllocs

Slots == 1..MaxBufs

Unused == [state |-> "unused", data |-> << >>]

NoBuf == [some |-> FALSE, source |-> 0, template |-> [source |-> 0, raw |-> << >>]]

NothingOwned ==
  /\ heap = [a \in Addrs |-> Unused]
  /\ bufs = [b \in Slots |-> NoBuf]
  /\ strings = [b \in Slots |-> 0]
  /\ history = << >>

(* No line of the source and no highlighting asked for yet. *)
NothingRendered ==
  /\ line = None
  /\ highlighting = None

(* No call of substitute_one yet; the parser is TemplateParser::default(). *)
NoSteps ==
  /\ steps = << >>
  /\ parser = TRUE

Init ==
  /\ source \in Sources
  /\ variables \in VariableMaps
  /\ call = "none"
  /\ template = NoTemplate
  /\ result = NoResult
  /\ lookups = << >>
  /\ silent = FALSE
  /\ range = None
  /\ NothingOwned
  /\ NothingRendered
  /\ NoSteps

Substitute ==
  /\ call = "none"
  /\ is_utf8(source)
  /\ LET r == substitute(source, variables)
     IN  /\ template' = r.template
         /\ result' = r.result
         /\ lookups' = r.lookups
  /\ call' = "substitute"
  /\ UNCHANGED <<source, variables, silent, range>>
  /\ UNCHANGED <<owned, rendering, stepping>>

SubstituteBytes ==
  /\ call = "none"
  /\ LET r == substitute_bytes(source, variables)
     IN  /\ template' = r.template
         /\ result' = r.result
         /\ lookups' = r.lookups
  /\ call' = "substitute_bytes"
  /\ UNCHANGED <<source, variables, silent, range>>
  /\ UNCHANGED <<owned, rendering, stepping>>

FromStr ==
  /\ call = "none"
  /\ is_utf8(source)
  /\ template' = Template_from_str(source)
  /\ result' = ParseOutcome(template')
  /\ lookups' = << >>
  /\ call' = "from_str"
  /\ UNCHANGED <<source, variables, silent, range>>
  /\ UNCHANGED <<owned, rendering, stepping>>

Expand ==
  /\ call = "from_str"
  /\ template.tag = "Ok"
  /\ LET r == Template_expand_string(template, source, variables)
     IN  /\ result' = r.result
         /\ lookups' = r.lookups
  /\ call' = "expand"
  /\ UNCHANGED <<source, variables, template, silent, range>>
  /\ UNCHANGED <<owned, rendering, stepping>>

Next == Substitute \/ SubstituteBytes \/ FromStr \/ Expand

Spec == Init /\ [][Next]_vars

(***************************************************************************)
(* The same calls with values that look like template text: the value of   *)
(* a is "${b}" and the value of b is "\:$a".                               *)
(***************************************************************************)
TextValueOf(name) ==
  IF name = <<ChA>> THEN <<Dollar, LBrace, ChB, RBrace>>
  ELSE <<Backslash, Colon, Dollar, ChA>>

TextValueMaps == { [n \in S |-> TextValueOf(n)] : S \in SUBSET Names }

ValInit ==
  /\ source \in Sources
  /\ variables \in TextValueMaps
  /\ call = "none"
  /\ template = NoTemplate
  /\ result = NoResult
  /\ lookups = << >>
  /\ silent = FALSE
  /\ range = None
  /\ NothingOwned
  /\ NothingRendered
  /\ NoSteps

ValSpec == ValInit /\ [][Next]_vars

(***************************************************************************)
(* The same calls on text with multi-byte characters and on bytes that are *)
(* no text, the parser and the expander of lib.rs used on their own, and   *)
(* Error::source_range of the error a call returned.                       *)
(***************************************************************************)
Utf8Tokens ==
  { EAcute, Euro, <<BadByte>>, <<Dollar>>, <<LBrace>>, <<RBrace>>, <<Colon>>,
    <<Backslash>>, <<ChA>> }

RECURSIVE Utf8Seqs(_)
Utf8Seqs(n) ==
  IF n = 0 THEN { << >> }
  ELSE LET shorter == Utf8Seqs(n - 1)
       IN  shorter \cup { s \o t : s \in shorter, t \in Utf8Tokens }

Utf8Bare == Utf8Seqs(MaxUtf8Tokens)

Utf8Sources ==
  Utf8Bare
    \cup { <<Dollar, LBrace>> \o s \o <<RBrace>> : s \in Utf8Bare }
    \cup { <<Dollar, LBrace, ChA, Colon>> \o s \o <<RBrace>> : s \in Utf8Bare }

Utf8Maps == { [n \in S |-> EAcute] : S \in SUBSET { <<ChA>> } }

Utf8Init ==
  /\ source \in Utf8Sources
  /\ variables \in Utf8Maps
  /\ call = "none"
  /\ template = NoTemplate
  /\ result = NoResult
  /\ lookups = << >>
  /\ silent = FALSE
  /\ range = None
  /\ NothingOwned
  /\ NothingRendered
  /\ NoSteps

(* lib.rs TemplateParser::parse, names starting with a digit allowed *)
Parse ==
  /\ call = "none"
  /\ is_utf8(source)
  /\ template' = TemplateParser_parse(TRUE, source)
  /\ result' = ParseOutcome(template')
  /\ lookups' = << >>
  /\ call' = "parse"
  /\ UNCHANGED <<source, variables, silent, range>>
  /\ UNCHANGED <<owned, rendering, stepping>>

(* lib.rs TemplateExpander::new(..).set_silent_missing_variables(value),   *)
(* then expand_template on the parsed template                             *)
ExpandTemplate ==
  /\ call = "parse"
  /\ template.tag = "Ok"
  /\ \E value \in BOOLEAN :
       LET expander == set_silent_missing_variables(
                         TemplateExpander_new(variables), value)
           st == TemplateExpander_expand_template(expander, source,
                                                  template.val)
       IN  /\ result' = Outcome(st)
           /\ lookups' = st.lookups
           /\ silent' = expander.silent_missing_variables
  /\ call' = "expand_template"
  /\ UNCHANGED <<source, variables, template, range>>
  /\ UNCHANGED <<owned, rendering, stepping>>

(* Error::source_range of the error the call returned *)
SourceRange ==
  /\ result.tag = "Err"
  /\ range = None
  /\ range' = Some(Error_source_range(result.err))
  /\ UNCHANGED <<source, variables, call, template, result, lookups, silent>>
  /\ UNCHANGED <<owned, rendering, stepping>>

(* template/mod.rs ByteTemplate::from_slice: any bytes *)
FromSlice ==
  /\ call = "none"
  /\ template' = Template_parse(source, 0)
  /\ result' = ParseOutcome(template')
  /\ lookups' = << >>
  /\ call' = "from_slice"
  /\ UNCHANGED <<source, variables, silent, range>>
  /\ UNCHANGED <<owned, rendering, stepping>>

(* template/mod.rs ByteTemplate::expand *)
ExpandBytes ==
  /\ call = "from_slice"
  /\ template.tag = "Ok"
  /\ LET st == Template_expand(template.val, NewOutput, source, variables)
     IN  /\ result' = Outcome(st)
         /\ lookups' = st.lookups
  /\ call' = "expand_bytes"
  /\ UNCHANGED <<source, variables, template, silent, range>>
  /\ UNCHANGED <<owned, rendering, stepping>>

Utf8Next ==
  \/ Next
  \/ Parse
  \/ ExpandTemplate
  \/ SourceRange
  \/ FromSlice
  \/ ExpandBytes

Utf8Spec == Utf8Init /\ [][Utf8Next]_vars

(***************************************************************************)
(* The entry points on escaped text: the sources are the byte strings of   *)
(* at most MaxEscLen bytes with a backslash put before each "\", "$", "{", *)
(* "}" and ":".                                                            *)
(***************************************************************************)
RECURSIVE Escaped(_)
Escaped(s) ==
  IF s = << >> THEN << >>
  ELSE (IF Head(s) \in Escapable THEN <<Backslash, Head(s)>> ELSE <<Head(s)>>)
         \o Escaped(Tail(s))

EscBytes == Escapable \cup {ChA, Bang}

RECURSIVE EscSeqs(_)
EscSeqs(n) ==
  IF n = 0 THEN { << >> }
  ELSE LET shorter == EscSeqs(n - 1)
       IN  shorter \cup { Append(s, b) : s \in shorter, b \in EscBytes }

EscSources == { Escaped(s) : s \in EscSeqs(MaxEscLen) }

EscInit ==
  /\ source \in EscSources
  /\ variables \in VariableMaps
  /\ call = "none"
  /\ template = NoTemplate
  /\ result = NoResult
  /\ lookups = << >>
  /\ silent = FALSE
  /\ range = None
  /\ NothingOwned
  /\ NothingRendered
  /\ NoSteps

EscSpec == EscInit /\ [][Next]_vars

(***************************************************************************)
(* src/error.rs: the line of the source an error is on and the             *)
(* highlighting of the error under it.  A &str slice panics when an end    *)
(* is out of bounds or no character boundary.  The display width is that   *)
(* of the unicode-width crate: 2 for the fullwidth parenthesis, 1 for the  *)
(* other characters used here.                                             *)
(***************************************************************************)
LineByte ==
  [nl |-> 10, cr |-> 13, space |-> 32, caret |-> 94,
   f1 |-> 239, f2 |-> 188, f3 |-> 136]

NewLine == LineByte.nl

CarriageReturn == LineByte.cr

Space == LineByte.space

Caret == LineByte.caret

FullWidth == <<LineByte.f1, LineByte.f2, LineByte.f3>>

MaxLineWidth == 60

str_slice(s, lo, hi) ==
  IF lo <= hi /\ hi <= Len(s) /\ is_char_boundary(s, lo)
     /\ is_char_boundary(s, hi)
    THEN Ok(Slice(s, lo, hi))
    ELSE Panic

(* UnicodeWidthStr::width of valid text: one column for each character,   *)
(* one more for each fullwidth one                                        *)
width(s) ==
  Cardinality({ i \in 0..(Len(s) - 1) : is_char_boundary(s, i) })
    + Cardinality({ i \in 0..(Len(s) - 1) :
                      i + Len(FullWidth) <= Len(s)
                        /\ Slice(s, i, i + Len(FullWidth)) = FullWidth })

repeat(byte, n) == [i \in 1..n |-> byte]

LineBreaks == {NewLine, CarriageReturn}

(* error.rs line_start: after the last line break before position *)
line_start(text, position) ==
  LET breaks == { i \in 0..(position - 1) : At(text, i) \in LineBreaks }
  IN  IF breaks = {} THEN 0
      ELSE (CHOOSE i \in breaks : \A j \in breaks : j <= i) + 1

(* error.rs line_end: the first line break at or after position *)
line_end(text, position) ==
  LET at == FindFirst(text, position, Len(text), LineBreaks)
  IN  IF at = -1 THEN Len(text) ELSE at

(* Error::source_line *)
Error_source_line(self, text) ==
  LET position == Error_source_range(self).start
  IN  str_slice(text, line_start(text, position), line_end(text, position))

(* error.rs write_underline(f, line, range), range being from..to *)
write_underline(text_line, from, to) ==
  LET before == str_slice(text_line, 0, from)
      marked == str_slice(text_line, from, to)
  IN  IF before.tag # "Ok" \/ marked.tag # "Ok" THEN Panic
      ELSE Ok(repeat(Space, width(before.val))
                \o repeat(Caret, width(marked.val)))

(* Error::source_highlighting / write_source_highlighting *)
Error_source_highlighting(self, text) ==
  LET r == Error_source_range(self)
      l == Error_source_line(self, text)
  IN  IF l.tag # "Ok" THEN Panic
      ELSE IF width(l.val) > MaxLineWidth THEN Ok(<< >>)
      ELSE LET u == write_underline(l.val, r.start, r.end)
           IN  IF u.tag # "Ok" THEN Panic
               ELSE Ok(<<Space, Space>> \o l.val \o <<NewLine, Space, Space>>
                         \o u.val \o <<NewLine>>)

(* The text sources of several lines, with characters of one and of two    *)
(* columns and a run that is wider than MaxLineWidth.                      *)
TooWide == repeat(Bang, MaxLineWidth + 1)

LineTokens ==
  { <<NewLine>>, <<CarriageReturn>>, <<Dollar>>, <<Backslash>>, <<LBrace>>,
    <<ChA>>, <<Bang>>, FullWidth, TooWide }

RECURSIVE LineSeqs(_)
LineSeqs(n) ==
  IF n = 0 THEN { << >> }
  ELSE LET shorter == LineSeqs(n - 1)
       IN  shorter \cup { s \o t : s \in shorter, t \in LineTokens }

LineSources == LineSeqs(MaxLineTokens)

LineMaps == { m \in VariableMaps : DOMAIN m = {} }

LineInit ==
  /\ source \in LineSources
  /\ variables \in LineMaps
  /\ call = "none"
  /\ template = NoTemplate
  /\ result = NoResult
  /\ lookups = << >>
  /\ silent = FALSE
  /\ range = None
  /\ NothingOwned
  /\ NothingRendered
  /\ NoSteps

(* Error::source_line(source) of the error the call returned *)
SourceLine ==
  /\ result.tag = "Err"
  /\ line = None
  /\ line' = Some(Error_source_line(result.err, source))
  /\ UNCHANGED <<source, variables, call, template, result, lookups, silent,
                 range, highlighting>>
  /\ UNCHANGED <<owned, stepping>>

(* Error::source_highlighting(source) of the error the call returned *)
SourceHighlighting ==
  /\ result.tag = "Err"
  /\ highlighting = None
  /\ highlighting' = Some(Error_source_highlighting(result.err, source))
  /\ UNCHANGED <<source, variables, call, template, result, lookups, silent,
                 range, line>>
  /\ UNCHANGED <<owned, stepping>>

LineNext ==
  \/ Substitute
  \/ FromStr
  \/ Expand
  \/ SourceRange
  \/ SourceLine
  \/ SourceHighlighting

LineSpec == LineInit /\ [][LineNext]_vars

(***************************************************************************)
(* src/lib.rs: VariableSubstituter, the step-wise substitution.  self is   *)
(* [parse_cfg, expand_cfg]; the caller calls substitute_one on the suffix  *)
(* of the source that the calls before have not consumed.  steps holds the *)
(* result of each call: its tag, and for Ok the returned count and string. *)
(***************************************************************************)
StepByte == [one |-> 49]

One == StepByte.one

NoStep == [tag |-> "None", count |-> 0, output |-> << >>, err |-> NoError,
           lookups |-> << >>]

(* The rest of substitute_one once the next part is parsed: the ? on the   *)
(* parse result, the ? on the expansion st of the part, and the pair.      *)
(* Mutant: the count is the length of the string, not the size of the part. *)
Stepped_output_length(next_part, st) ==
  IF next_part.tag # "Ok"
    THEN [NoStep EXCEPT !.tag = next_part.tag, !.err = next_part.err]
  ELSE IF next_part.val = << >> THEN [NoStep EXCEPT !.tag = "Ok"]
  ELSE IF Failed(st)
    THEN [NoStep EXCEPT !.tag = "Err", !.err = st.err, !.lookups = st.lookups]
  ELSE [NoStep EXCEPT !.tag = "Ok",
                      !.count = Len(st.output),
                      !.output = st.output,
                      !.lookups = st.lookups]

Stepped(next_part, st) ==
  IF next_part.tag # "Ok"
    THEN [NoStep EXCEPT !.tag = next_part.tag, !.err = next_part.err]
  ELSE IF next_part.val = << >> THEN [NoStep EXCEPT !.tag = "Ok"]
  ELSE IF Failed(st)
    THEN [NoStep EXCEPT !.tag = "Err", !.err = st.err, !.lookups = st.lookups]
  ELSE [NoStep EXCEPT !.tag = "Ok",
                      !.count = ByteLength_size(next_part.val[1]),
                      !.output = st.output,
                      !.lookups = st.lookups]

VariableSubstituter_substitute_one(self, text) ==
  CHOOSE r \in
    UNION { { Stepped(next_part, st) :
              st \in { IF next_part.tag = "Ok" /\ next_part.val # << >>
                         THEN TemplateExpander_expand_template_part(
                                self.expand_cfg, text, next_part.val[1],
                                NewOutput)
                         ELSE NewOutput } } :
            next_part \in
              { TemplateParser_parse_template_one_step(self.parse_cfg, 0, text,
                  [start |-> 0, end |-> Len(text)]) } } : TRUE

(* The inputs: sources of at most MaxStepTokens tokens, bare and inside    *)
(* "${" .. "}", with names that start with a digit; the map of a, 1 and 1a *)
(* and the map of a alone.                                                 *)
StepTokens ==
  { <<Dollar>>, <<Dollar, One>>, <<RBrace>>, <<Colon>>, <<ChA, Colon>>,
    <<Backslash>>, <<One>>, <<ChA>>, <<Bang>> }

RECURSIVE StepSeqs(_)
StepSeqs(n) ==
  IF n = 0 THEN { << >> }
  ELSE LET shorter == StepSeqs(n - 1)
       IN  shorter \cup { s \o t : s \in shorter, t \in StepTokens }

StepSources ==
  StepSeqs(MaxStepTokens)
    \cup { <<Dollar, LBrace>> \o s \o <<RBrace>> : s \in StepSeqs(MaxStepTokens) }

StepNames == { <<ChA>>, <<One>>, <<One, ChA>> }

StepValueOf(name) ==
  IF name = <<ChA>> THEN <<ChV>>
  ELSE IF name = <<One>> THEN <<ChW>>
  ELSE <<ChV, ChW>>

StepMaps ==
  { [n \in S |-> StepValueOf(n)] : S \in { StepNames, { <<ChA>> } } }

StepInit ==
  /\ source \in StepSources
  /\ variables \in StepMaps
  /\ call = "none"
  /\ template = NoTemplate
  /\ result = NoResult
  /\ lookups = << >>
  /\ silent = FALSE
  /\ range = None
  /\ NothingOwned
  /\ NothingRendered
  /\ steps = << >>
  /\ parser \in BOOLEAN

(* The number of bytes of the source that the calls so far have consumed. *)
RECURSIVE Consumed(_)
Consumed(done) ==
  IF done = << >> THEN 0
  ELSE Consumed(SubSeq(done, 1, Len(done) - 1)) + done[Len(done)].count

(* The caller goes on until a call fails or returns (0, ""). *)
Stepping ==
  IF steps = << >> THEN TRUE
  ELSE steps[Len(steps)].tag = "Ok" /\ steps[Len(steps)].count > 0

SubstituteOne ==
  /\ call \in {"none", "substitute_one"}
  /\ Stepping
  /\ \E step \in
         { VariableSubstituter_substitute_one(
             [parse_cfg |-> parser,
              expand_cfg |-> TemplateExpander_new(variables)],
             Slice(source, Consumed(steps), Len(source))) } :
       /\ steps' = Append(steps, step)
       /\ result' = [tag |-> step.tag, output |-> step.output,
                     err |-> step.err]
       /\ lookups' = lookups \o step.lookups
  /\ call' = "substitute_one"
  /\ UNCHANGED <<source, variables, template, silent, range, parser>>
  /\ UNCHANGED <<owned, rendering>>

StepNext == Substitute \/ SubstituteOne

StepSpec == StepInit /\ [][StepNext]_vars

(***************************************************************************)
(* src/template/mod.rs: the owned templates TemplateBuf / ByteTemplateBuf. *)
(* A String or Vec keeps its bytes in a heap block; heap[a] is the block   *)
(* at address a: unused, live with its bytes, or freed.  An owned template *)
(* is its source (the address of the block it owns) and its template, a    *)
(* borrowed Template: the address its source reference points to, and the  *)
(* raw parts.  bufs[b] is the owned template the caller holds in place b,  *)
(* strings[b] the address of the String that into_source handed back from  *)
(* place b (0 when there is none), history the tags of the results of the  *)
(* expand calls so far.                                                    *)
(***************************************************************************)
Live(data) == [state |-> "live", data |-> data]

Freed == [state |-> "freed", data |-> << >>]

BorrowedTemplate(source_ref, raw) == [source |-> source_ref, raw |-> raw]

TemplateBuf(tmpl, source_addr) ==
  [some |-> TRUE, source |-> source_addr, template |-> tmpl]

(* The lowest address never handed out. *)
FreshAddr(mem) ==
  CHOOSE a \in Addrs :
    /\ mem[a].state = "unused"
    /\ \A b \in Addrs : mem[b].state = "unused" => a <= b

(* TemplateBuf::from_string / ByteTemplateBuf::from_vec on the String     *)
(* whose block is at source_addr                                          *)
TemplateBuf_from_string(text, source_addr) ==
  LET parsed == Template_from_str(text)
  IN  IF parsed.tag # "Ok" THEN parsed
      ELSE Ok(TemplateBuf(BorrowedTemplate(source_addr, parsed.val),
                          source_addr))

(* Mutant: the template of the clone refers to the source of the original. *)
TemplateBuf_clone_aliasing(self, source_addr) ==
  TemplateBuf(BorrowedTemplate(self.template.source, self.template.raw),
              source_addr)

(* impl Clone for TemplateBuf, source_addr being the block of              *)
(* self.source.clone()                                                     *)
TemplateBuf_clone(self, source_addr) ==
  TemplateBuf(BorrowedTemplate(source_addr, self.template.raw), source_addr)

(* Template::source through the reference the template holds *)
Template_source(self, mem) == mem[self.source].data

(* Mutant: into_source hands back an emptied String. *)
TemplateBuf_into_source_taken(self, mem) ==
  [addr |-> self.source, value |-> << >>]

(* TemplateBuf::into_source: the String, and the text it holds *)
TemplateBuf_into_source(self, mem) ==
  [addr |-> self.source, value |-> mem[self.source].data]

RECURSIVE PartsInBounds(_, _)
PartsInBounds(parts, n) ==
  \A i \in 1..Len(parts) :
    /\ parts[i].kind = "Literal" => parts[i].end <= n
    /\ parts[i].kind = "Variable" =>
         /\ parts[i].name_end <= n
         /\ parts[i].default.some => PartsInBounds(parts[i].default.val, n)

(* Mutant: expand leaves the template without its parts. *)
TemplateBuf_expand_draining(self, mem, m) ==
  LET text == Template_source(self.template, mem)
      out == IF PartsInBounds(self.template.raw, Len(text))
               THEN Template_expand_string([val |-> self.template.raw],
                                           text, m)
               ELSE [result |-> [NoResult EXCEPT !.tag = "Panic"],
                     lookups |-> << >>]
  IN  [self |-> [self EXCEPT !.template.raw = << >>],
       result |-> out.result, lookups |-> out.lookups]

(* TemplateBuf::expand(&self, m) = self.as_template().expand(m):           *)
(* the receiver after the call, the result and the lookups.  A range of a  *)
(* part that lies outside the text it is applied to panics.                *)
TemplateBuf_expand(self, mem, m) ==
  LET text == Template_source(self.template, mem)
      out == IF PartsInBounds(self.template.raw, Len(text))
               THEN Template_expand_string([val |-> self.template.raw],
                                           text, m)
               ELSE [result |-> [NoResult EXCEPT !.tag = "Panic"],
                     lookups |-> << >>]
  IN  [self |-> self, result |-> out.result, lookups |-> out.lookups]

(* The sources of the owned templates: at most MaxBufTokens of these.     *)
BufTokens ==
  { <<Dollar, ChB>>, <<Dollar, LBrace, ChB, Colon>>, <<RBrace>>,
    <<Backslash>>, <<Bang>> }

RECURSIVE BufSeqs(_)
BufSeqs(n) ==
  IF n = 0 THEN { << >> }
  ELSE LET shorter == BufSeqs(n - 1)
       IN  shorter \cup { s \o t : s \in shorter, t \in BufTokens }

BufSources == BufSeqs(MaxBufTokens)

BufMaps == { m \in VariableMaps : DOMAIN m \in { {}, Names } }

BufInit ==
  /\ source \in BufSources
  /\ variables = << >>
  /\ call = "none"
  /\ template = NoTemplate
  /\ result = NoResult
  /\ lookups = << >>
  /\ silent = FALSE
  /\ range = None
  /\ NothingOwned
  /\ NothingRendered
  /\ NoSteps

(* The String or Vec the caller passes in lives in a fresh block; when the *)
(* parse fails it is dropped with the error.                               *)
Owned(made, a) ==
  /\ result' = ParseOutcome(made)
  /\ IF made.tag = "Ok"
       THEN /\ heap' = [heap EXCEPT ![a] = Live(source)]
            /\ bufs' = [bufs EXCEPT ![1] = made.val]
       ELSE /\ heap' = [heap EXCEPT ![a] = Freed]
            /\ UNCHANGED bufs

(* TemplateBuf::from_string(source) *)
FromString ==
  /\ call = "none"
  /\ is_utf8(source)
  /\ \E a \in { FreshAddr(heap) } :
       Owned(TemplateBuf_from_string(source, a), a)
  /\ call' = "from_string"
  /\ UNCHANGED <<source, variables, template, lookups, silent, range,
                 strings, history>>
  /\ UNCHANGED <<rendering, stepping>>

(* ByteTemplateBuf::from_vec(source) *)
FromVec ==
  /\ call = "none"
  /\ \E a \in { FreshAddr(heap) } :
       Owned(TemplateBuf_from_string(source, a), a)
  /\ call' = "from_vec"
  /\ UNCHANGED <<source, variables, template, lookups, silent, range,
                 strings, history>>
  /\ UNCHANGED <<rendering, stepping>>

(* let bufs[c] = bufs[b].clone() *)
Clone ==
  \E b, c \in Slots :
    /\ bufs[b].some
    /\ ~bufs[c].some
    /\ \E a \in Addrs : heap[a].state = "unused"
    /\ LET a == FreshAddr(heap)
       IN  /\ heap' = [heap EXCEPT ![a] = Live(heap[bufs[b].source].data)]
           /\ bufs' = [bufs EXCEPT ![c] = TemplateBuf_clone(bufs[b], a)]
    /\ UNCHANGED <<source, variables, call, template, result, lookups,
                   silent, range, strings, history>>
    /\ UNCHANGED <<rendering, stepping>>

(* let bufs[c] = bufs[b]: a move of the owned template *)
Move ==
  \E b, c \in Slots :
    /\ bufs[b].some
    /\ ~bufs[c].some
    /\ bufs' = [bufs EXCEPT ![c] = bufs[b], ![b] = NoBuf]
    /\ UNCHANGED <<source, variables, call, template, result, lookups,
                   silent, range, heap, strings, history>>
    /\ UNCHANGED <<rendering, stepping>>

(* let strings[b] = bufs[b].into_source() *)
IntoSource ==
  \E b \in Slots :
    /\ bufs[b].some
    /\ strings[b] = 0
    /\ LET r == TemplateBuf_into_source(bufs[b], heap)
       IN  /\ strings' = [strings EXCEPT ![b] = r.addr]
           /\ result' = [tag |-> "Ok", output |-> r.value, err |-> NoError]
    /\ bufs' = [bufs EXCEPT ![b] = NoBuf]
    /\ lookups' = << >>
    /\ call' = "into_source"
    /\ UNCHANGED <<source, variables, template, silent, range, heap,
                   history>>
    /\ UNCHANGED <<rendering, stepping>>

(* The caller overwrites a String it got back: clear() and push('!'), or   *)
(* clear() alone when the source was "!".                                  *)
MutateString ==
  \E b \in Slots :
    /\ strings[b] # 0
    /\ heap[strings[b]].data = source
    /\ heap' = [heap EXCEPT ![strings[b]] =
                  Live(IF source = <<Bang>> THEN << >> ELSE <<Bang>>)]
    /\ UNCHANGED <<source, variables, call, template, result, lookups,
                   silent, range, bufs, strings, history>>
    /\ UNCHANGED <<rendering, stepping>>

(* drop(strings[b]) *)
DropString ==
  \E b \in Slots :
    /\ strings[b] # 0
    /\ heap' = [heap EXCEPT ![strings[b]] = Freed]
    /\ strings' = [strings EXCEPT ![b] = 0]
    /\ UNCHANGED <<source, variables, call, template, result, lookups,
                   silent, range, bufs, history>>
    /\ UNCHANGED <<rendering, stepping>>

(* drop(bufs[b]): the template is dropped, then the source *)
DropBuf ==
  \E b \in Slots :
    /\ bufs[b].some
    /\ heap' = [heap EXCEPT ![bufs[b].source] = Freed]
    /\ bufs' = [bufs EXCEPT ![b] = NoBuf]
    /\ UNCHANGED <<source, variables, call, template, result, lookups,
                   silent, range, strings, history>>
    /\ UNCHANGED <<rendering, stepping>>

(* bufs[b].expand(&m).  Reading a block that was freed is undefined: the   *)
(* call may return anything or panic.                                      *)
BufExpand ==
  \E b \in Slots, m \in BufMaps :
    /\ bufs[b].some
    /\ Len(history) < MaxExpands
    /\ IF heap[bufs[b].template.source].state = "live"
         THEN LET r == TemplateBuf_expand(bufs[b], heap, m)
              IN  /\ bufs' = [bufs EXCEPT ![b] = r.self]
                  /\ result' = r.result
                  /\ lookups' = r.lookups
         ELSE /\ result' \in { [NoResult EXCEPT !.tag = "Panic"],
                                [NoResult EXCEPT !.tag = "Ok"],
                                [NoResult EXCEPT !.tag = "Ok",
                                                 !.output = <<Bang>>] }
              /\ lookups' = << >>
              /\ UNCHANGED bufs
    /\ variables' = m
    /\ history' = Append(history, result'.tag)
    /\ call' = "buf_expand"
    /\ UNCHANGED <<source, template, silent, range, heap, strings>>
    /\ UNCHANGED <<rendering, stepping>>

BufNext ==
  \/ FromString
  \/ FromVec
  \/ Clone
  \/ Move
  \/ IntoSource
  \/ MutateString
  \/ DropString
  \/ DropBuf
  \/ BufExpand

BufSpec == BufInit /\ [][BufNext]_vars

(***************************************************************************)
(* Vocabulary of the properties.                                           *)
(***************************************************************************)
(* A substitution has returned to its caller: a one-shot call, an expand   *)
(* of a parsed template, or a from_str that rejected the source.           *)
Completed ==
  \/ call \in {"substitute", "substitute_bytes", "expand"}
  \/ call = "from_str" /\ result.tag # "Ok"

(* What the entry points of the path taken by call return for another      *)
(* source and map.                                                         *)
ResultOf(c, src, vs) ==
  IF c = "substitute" THEN substitute(src, vs).result
  ELSE IF c = "substitute_bytes" THEN substitute_bytes(src, vs).result
  ELSE LET t == Template_from_str(src)
       IN  IF t.tag # "Ok" THEN ParseOutcome(t)
           ELSE Template_expand_string(t, src, vs).result

Shifted(r, k) ==
  IF r.tag = "Err" THEN [r EXCEPT !.err.position = @ + k] ELSE r

NoSpecial(s) == \A i \in 1..Len(s) : s[i] \notin {Dollar, Backslash}

(* The length of the longest prefix of s without "$" and "\". *)
LitLen(s) ==
  LET x == FindFirst(s, 0, Len(s), {Dollar, Backslash})
  IN  IF x = -1 THEN Len(s) ELSE x

(* The end of the run of name bytes that starts at index i. *)
RunEnd(s, i) ==
  LET x == FindFirstNot(s, i, Len(s), NameBytes)
  IN  IF x = -1 THEN Len(s) ELSE x

(* The "}" that closes the "{" at index open, as the grammar has it: a     *)
(* backslash hides the byte after it, an unescaped "{" opens a level and   *)
(* an unescaped "}" closes one.  -1 when there is none.                    *)
RECURSIVE MatchFrom(_, _, _)
MatchFrom(s, i, level) ==
  IF i >= Len(s) THEN -1
  ELSE IF At(s, i) = Backslash THEN MatchFrom(s, i + 2, level)
  ELSE IF At(s, i) = LBrace THEN MatchFrom(s, i + 1, level + 1)
  ELSE IF At(s, i) = RBrace
    THEN IF level = 1 THEN i ELSE MatchFrom(s, i + 1, level - 1)
  ELSE MatchFrom(s, i + 1, level)

MatchingBrace(s, open) == MatchFrom(s, open + 1, 1)

(* The source opens with "${NAME:" ; NameEnd is the offset of the colon. *)
NameEnd == RunEnd(source, 2)

OpensWithDefault ==
  /\ Len(source) >= 4
  /\ At(source, 0) = Dollar
  /\ At(source, 1) = LBrace
  /\ NameEnd > 2
  /\ NameEnd < Len(source)
  /\ At(source, NameEnd) = Colon

FirstName == Slice(source, 2, NameEnd)

(* The result of the default text and of the text after the placeholder,   *)
(* each substituted on its own by the same entry point.                    *)
DefaultAlone(m) == ResultOf(call, Slice(source, NameEnd + 1, m), variables)

RestAlone(m) == ResultOf(call, Slice(source, m + 1, Len(source)), variables)

ParsesAlone(r) == r.tag = "Ok" \/ r.err.kind = "NoSuchVariable"

OkResult(output) == [tag |-> "Ok", output |-> output, err |-> NoError]

ErrResult(e) == [tag |-> "Err", output |-> << >>, err |-> e]

(***************************************************************************)
(* C1: a placeholder "$NAME", "${NAME}" or "${NAME:default}" whose name is *)
(* in the map is replaced by the value of the map, whatever the default;   *)
(* when the name is missing and a default is present it is replaced by the *)
(* expansion of the default under the same map.                            *)
(***************************************************************************)
C1_Resolution ==
  LET m == MatchingBrace(source, 1)
      shortName == Slice(source, 1, Len(source))
      bracedName == Slice(source, 2, Len(source) - 1)
  IN  /\ ( /\ Completed
           /\ Len(source) >= 2
           /\ At(source, 0) = Dollar
           /\ RunEnd(source, 1) = Len(source)
           /\ shortName \in DOMAIN variables )
         => result = OkResult(variables[shortName])
      /\ ( /\ Completed
           /\ Len(source) >= 4
           /\ At(source, 0) = Dollar
           /\ At(source, 1) = LBrace
           /\ RunEnd(source, 2) = Len(source) - 1
           /\ At(source, Len(source) - 1) = RBrace
           /\ bracedName \in DOMAIN variables )
         => result = OkResult(variables[bracedName])
      /\ ( /\ Completed
           /\ OpensWithDefault
           /\ m = Len(source) - 1
           /\ ParsesAlone(DefaultAlone(m)) )
         => IF FirstName \in DOMAIN variables
              THEN result = OkResult(variables[FirstName])
              ELSE result = Shifted(DefaultAlone(m), NameEnd + 1)

(***************************************************************************)
(* C3: the default of "${NAME:default}" ends at the matching unescaped,    *)
(* nesting-aware "}": what lies before it belongs to the default, what     *)
(* lies after it is top-level text.  "${a:${b:!}}" with neither name in    *)
(* the map gives "!" and no trailing "}".                                  *)
(***************************************************************************)
C3_DefaultExtent ==
  LET m == MatchingBrace(source, 1)
  IN  ( /\ Completed
        /\ OpensWithDefault
        /\ m # -1
        /\ DefaultAlone(m).tag = "Ok"
        /\ RestAlone(m).tag = "Ok" )
      => IF FirstName \in DOMAIN variables
           THEN result = OkResult(variables[FirstName] \o RestAlone(m).output)
           ELSE result = OkResult(DefaultAlone(m).output \o RestAlone(m).output)

(***************************************************************************)
(* C4: when the name of a placeholder is in the map, its default is not    *)
(* expanded: no variable of the default is looked up and none of them can  *)
(* make the expansion fail with NoSuchVariable.                            *)
(***************************************************************************)
C4_DefaultNotExpanded ==
  ( /\ Completed
    /\ OpensWithDefault
    /\ MatchingBrace(source, 1) = Len(source) - 1
    /\ FirstName \in DOMAIN variables )
  => /\ result.err.kind # "NoSuchVariable"
     /\ lookups \in { << >>, <<FirstName>> }

(***************************************************************************)
(* C5: a grammar error anywhere in the source - also after a placeholder   *)
(* whose variable is missing - is what the call returns: the map is not    *)
(* queried and NoSuchVariable is not returned.                             *)
(***************************************************************************)
BadTails ==
  { <<Dollar>>, <<Backslash>>, <<Backslash, Bang>>, <<Dollar, Bang>>,
    <<Dollar, LBrace>>, <<Dollar, LBrace, RBrace>>,
    <<Dollar, LBrace, ChB, Colon>>,
    <<Dollar, LBrace, ChB, Colon, LBrace, RBrace>> }

C5_ParseErrorsFirst ==
  /\ result.err.kind \in ParseErrorKinds => lookups = << >>
  /\ (Completed /\ \E bad \in BadTails : source = <<Dollar, ChB>> \o bad)
       => /\ result.tag = "Err"
          /\ result.err.kind \in ParseErrorKinds
          /\ lookups = << >>

(***************************************************************************)
(* C8: a "$" that is followed by no name byte (and by no "{"), or by       *)
(* nothing at all, fails with MissingVariableName at the "$", length 1.    *)
(***************************************************************************)
C8_ShortMissingName ==
  LET l == LitLen(source)
  IN  ( /\ Completed
        /\ l < Len(source)
        /\ At(source, l) = Dollar
        /\ \/ l + 1 = Len(source)
           \/ At(source, l + 1) \notin NameBytes \cup {LBrace} )
      => result = ErrResult(MissingVariableName(l, 1))

(***************************************************************************)
(* C9: MissingVariableName for a braced placeholder is at the "$" and has  *)
(* length 2; no MissingVariableName has a length other than 1 or 2.        *)
(***************************************************************************)
C9_BracedMissingName ==
  LET p == result.err.position
      l == LitLen(source)
  IN  /\ result.err.kind = "MissingVariableName" =>
           /\ result.err.len \in {1, 2}
           /\ At(source, p) = Dollar
           /\ (p + 1 < Len(source) /\ At(source, p + 1) = LBrace)
                => result.err.len = 2
      /\ ( /\ Completed
           /\ l + 1 < Len(source)
           /\ At(source, l) = Dollar
           /\ At(source, l + 1) = LBrace
           /\ \/ l + 2 = Len(source)
              \/ At(source, l + 2) \in {RBrace, Colon} )
         => result = ErrResult(MissingVariableName(l, 2))

(***************************************************************************)
(* C10: a braced placeholder whose name runs to the end of the input, or   *)
(* whose default has no matching nesting-aware "}", fails with             *)
(* MissingClosingBrace at its "{" ; such a source is never accepted.       *)
(***************************************************************************)
C10_MissingClosingBrace ==
  LET l == LitLen(source)
      n == RunEnd(source, l + 2)
  IN  ( /\ Completed
        /\ l + 2 < Len(source)
        /\ At(source, l) = Dollar
        /\ At(source, l + 1) = LBrace
        /\ n > l + 2
        /\ \/ n = Len(source)
           \/ At(source, n) = Colon /\ MatchingBrace(source, l + 1) = -1 )
      => result = ErrResult(MissingClosingBrace(l + 1))

(***************************************************************************)
(* C2: a source without "$" and without "\" is returned as it is, by every *)
(* entry point and under every map, and the map is never queried.          *)
(***************************************************************************)
C2_Identity ==
  NoSpecial(source) =>
    /\ call = "from_str" => result.tag = "Ok"
    /\ call \in {"substitute", "substitute_bytes", "expand"} =>
         /\ result = [tag |-> "Ok", output |-> source, err |-> NoError]
         /\ lookups = << >>

C2_Witness ==
  /\ call = "substitute"
  /\ NoSpecial(source)
  /\ Len(source) >= 3
  /\ \E i \in 1..Len(source) : source[i] = RBrace
  /\ DOMAIN variables = Names
  /\ result.output = source

(***************************************************************************)
(* C6: a placeholder whose name is missing from the map and that has no    *)
(* default fails with NoSuchVariable; the position is the offset of the    *)
(* first byte of the name and the name is the name text of the source, in  *)
(* the "$name" and in the "${name}" form.                                  *)
(***************************************************************************)
C6_NoSuchVariable ==
  LET p == result.err.position
      n == result.err.name
      l == LitLen(source)
      shortEnd == RunEnd(source, l + 1)
      bracedEnd == RunEnd(source, l + 2)
      reached == Completed /\ template.tag = "Ok" /\ l + 1 < Len(source)
                 /\ At(source, l) = Dollar
  IN  /\ result.err.kind = "NoSuchVariable" =>
           /\ Len(n) >= 1
           /\ p >= 1
           /\ p + Len(n) <= Len(source)
           /\ Slice(source, p, p + Len(n)) = n
           /\ n \notin DOMAIN variables
           /\ \/ At(source, p - 1) = Dollar
              \/ /\ p >= 2
                 /\ At(source, p - 1) = LBrace
                 /\ At(source, p - 2) = Dollar
                 /\ At(source, p + Len(n)) = RBrace
      /\ ( /\ reached
           /\ shortEnd > l + 1
           /\ Slice(source, l + 1, shortEnd) \notin DOMAIN variables )
         => result = [tag |-> "Err", output |-> << >>,
                      err |-> NoSuchVariable(l + 1, Slice(source, l + 1, shortEnd))]
      /\ ( /\ reached
           /\ At(source, l + 1) = LBrace
           /\ bracedEnd > l + 2
           /\ bracedEnd < Len(source)
           /\ At(source, bracedEnd) = RBrace
           /\ Slice(source, l + 2, bracedEnd) \notin DOMAIN variables )
         => result = [tag |-> "Err", output |-> << >>,
                      err |-> NoSuchVariable(l + 2, Slice(source, l + 2, bracedEnd))]

C6_Witness ==
  /\ call = "expand"
  /\ result.err.kind = "NoSuchVariable"
  /\ result.err.name = <<ChA, ChA>>
  /\ result.err.position = 2
  /\ At(source, 1) = LBrace

(***************************************************************************)
(* C7: a backslash the scan reaches is accepted exactly when the next byte *)
(* is one of \ $ { } : ; it then yields that byte and the scan goes on two *)
(* bytes further.  Any other next byte fails with InvalidEscapeSequence at *)
(* the backslash, carrying the character or byte that follows; a backslash *)
(* that ends the source fails with InvalidEscapeSequence at the last       *)
(* offset, carrying nothing.                                               *)
(***************************************************************************)
C7_Escape ==
  LET p == result.err.position
      c == result.err.character
      l == LitLen(source)
      rest == ResultOf(call, Slice(source, l + 2, Len(source)), variables)
      head == Slice(source, 0, l) \o <<At(source, l + 1)>>
  IN  /\ result.err.kind = "InvalidEscapeSequence" =>
           /\ p < Len(source)
           /\ At(source, p) = Backslash
           /\ IF p = Len(source) - 1
                THEN c = NoChar
                ELSE /\ At(source, p + 1) \notin Escapable
                     /\ c.tag \in {"Char", "Byte"}
                     /\ Len(c.bytes) >= 1
                     /\ c.bytes = Slice(source, p + 1, p + 1 + Len(c.bytes))
      /\ (Completed /\ l < Len(source) /\ At(source, l) = Backslash) =>
           IF l = Len(source) - 1
             THEN result = [tag |-> "Err", output |-> << >>,
                            err |-> InvalidEscapeSequence(l, NoChar)]
           ELSE IF At(source, l + 1) \notin Escapable
             THEN /\ result.tag = "Err"
                  /\ result.err.kind = "InvalidEscapeSequence"
                  /\ result.err.position = l
                  /\ result.err.character.bytes[1] = At(source, l + 1)
           ELSE /\ result.tag = rest.tag
                /\ result.tag = "Ok" => result.output = head \o rest.output
                /\ result.tag = "Err" => result = Shifted(rest, l + 2)

C7_Witness ==
  /\ call = "substitute"
  /\ result.tag = "Ok"
  /\ Len(source) = 3
  /\ At(source, 1) = Backslash
  /\ At(source, 2) = Colon
  /\ result.output = <<At(source, 0), Colon>>

(***************************************************************************)
(* The character that starts at index i of s, as an error carries it: the  *)
(* scalar value in its UTF-8 bytes, or the raw byte when none starts there.*)
(***************************************************************************)
CharOrByteAt(s, i) ==
  IF Utf8LenAt(s, i) > 0
    THEN Char(Slice(s, i, i + Utf8LenAt(s, i)))
    ELSE Byte(At(s, i))

(***************************************************************************)
(* C11: in "${NAME" with a non-empty NAME, a next byte that is neither "}" *)
(* nor ":" fails with UnexpectedCharacter at the offset of that byte,      *)
(* carrying that character (or raw byte) and the message that names a      *)
(* closing brace or colon.                                                 *)
(***************************************************************************)
C11_UnexpectedCharacter ==
  LET l == LitLen(source)
      n == RunEnd(source, l + 2)
  IN  ( /\ Completed
        /\ l + 2 < Len(source)
        /\ At(source, l) = Dollar
        /\ At(source, l + 1) = LBrace
        /\ n > l + 2
        /\ n < Len(source)
        /\ At(source, n) \notin {RBrace, Colon} )
      => result = ErrResult(UnexpectedCharacter(n, CharOrByteAt(source, n),
                                                "brace_or_colon"))

(***************************************************************************)
(* C12: every variable of a successfully parsed template, at any depth of  *)
(* defaults, has a non-empty name made of ASCII letters, digits and "_".   *)
(***************************************************************************)
RECURSIVE NamesAreValid(_, _)
NamesAreValid(parts, s) ==
  \A i \in 1..Len(parts) :
    parts[i].kind = "Variable" =>
      /\ parts[i].name_end > parts[i].name_start
      /\ \A k \in parts[i].name_start..(parts[i].name_end - 1) :
           At(s, k) \in NameBytes
      /\ parts[i].default.some => NamesAreValid(parts[i].default.val, s)

C12_NameCharset ==
  template.tag = "Ok" => NamesAreValid(template.val, source)

(***************************************************************************)
(* C13: a call that fails returns exactly one error.  When the expansion   *)
(* meets variables that are missing and have no default, the error is      *)
(* NoSuchVariable for the first of them and nothing after it is looked up. *)
(***************************************************************************)
C13_FailFast ==
  LET e == result.err
      twoShort == \E n1, n2 \in Names :
                    source = <<Dollar>> \o n1 \o <<Dollar>> \o n2
      n1 == Slice(source, 1, 2)
      n2 == Slice(source, 3, 4)
  IN  /\ Completed => result.tag \in {"Ok", "Err"}
      /\ result.tag = "Err" <=> e.kind # "None"
      /\ e.kind = "NoSuchVariable" =>
           /\ lookups # << >>
           /\ lookups[Len(lookups)] = e.name
           /\ e.name \notin DOMAIN variables
           /\ e.name = Slice(source, e.position, e.position + Len(e.name))
      /\ (call \in {"substitute", "substitute_bytes", "expand"} /\ twoShort) =>
           IF n1 \notin DOMAIN variables
             THEN /\ result = ErrResult(NoSuchVariable(1, n1))
                  /\ lookups = <<n1>>
           ELSE IF n2 \notin DOMAIN variables
             THEN /\ result = ErrResult(NoSuchVariable(3, n2))
                  /\ lookups = <<n1, n2>>
           ELSE /\ result.tag = "Ok"
                /\ lookups = <<n1, n2>>

(***************************************************************************)
(* C14: silence is opt-in.  substitute and substitute_bytes, and an        *)
(* expander left as built, fail with NoSuchVariable on a missing variable  *)
(* without default; after set_silent_missing_variables(true) such a        *)
(* placeholder expands to nothing, and what expands without the option     *)
(* expands to the same text with it.                                       *)
(***************************************************************************)
MissingShortA ==
  /\ Len(source) >= 2
  /\ At(source, 0) = Dollar
  /\ At(source, 1) = ChA
  /\ RunEnd(source, 1) = 2
  /\ NoSpecial(Slice(source, 2, Len(source)))
  /\ <<ChA>> \notin DOMAIN variables

C14_SilentOptIn ==
  LET rest == Slice(source, 2, Len(source))
      loud == ResultOf("substitute", source, variables)
  IN  /\ (call \in {"substitute", "substitute_bytes"} /\ MissingShortA)
           => result = ErrResult(NoSuchVariable(1, <<ChA>>))
      /\ call = "expand_template" =>
           /\ (~silent /\ MissingShortA)
                => result = ErrResult(NoSuchVariable(1, <<ChA>>))
           /\ silent => result.tag = "Ok"
           /\ (silent /\ MissingShortA) => result = OkResult(rest)
           /\ (silent /\ loud.tag = "Ok") => result = loud

C14_Witness ==
  /\ call = "expand_template"
  /\ silent
  /\ MissingShortA
  /\ result = OkResult(EAcute)

(***************************************************************************)
(* C15: source_range() of an error is position .. position + n, where n is *)
(* 1 plus the byte length of the character for InvalidEscapeSequence (1    *)
(* when it carries none), the length for MissingVariableName, the byte     *)
(* length of the character for UnexpectedCharacter, 1 for                  *)
(* MissingClosingBrace and the length of the name for NoSuchVariable; a    *)
(* raw byte counts as one byte.                                            *)
(***************************************************************************)
PayloadLen(c) ==
  IF c.tag = "None" THEN 0
  ELSE IF c.tag = "Byte" THEN 1
  ELSE Utf8LenAt(c.bytes, 0)

C15_SourceRange ==
  LET e == result.err
      p == e.position
  IN  range.some =>
        /\ range.val.start = p
        /\ e.kind = "InvalidEscapeSequence"
             => range.val.end = p + 1 + PayloadLen(e.character)
        /\ e.kind = "MissingVariableName" => range.val.end = p + e.len
        /\ e.kind = "UnexpectedCharacter"
             => range.val.end = p + PayloadLen(e.character)
        /\ e.kind = "MissingClosingBrace" => range.val.end = p + 1
        /\ e.kind = "NoSuchVariable" => range.val.end = p + Len(e.name)

C15_Witness ==
  /\ range.some
  /\ result.err.kind = "UnexpectedCharacter"
  /\ result.err.character = Char(Euro)
  /\ range.val = [start |-> 3, end |-> 6]

(***************************************************************************)
(* C16: positions are offsets into the full source at every depth: an      *)
(* error found inside the default of "${NAME:default}" - a parse error in  *)
(* the default, or NoSuchVariable for a variable of the default - is the   *)
(* error the default gives on its own, moved by the offset at which the    *)
(* default starts; and the bytes at the position of any error are the      *)
(* bytes the error is about.                                               *)
(***************************************************************************)
C16_AbsolutePositions ==
  LET m == MatchingBrace(source, 1)
      inner == DefaultAlone(m)
      e == result.err
      p == e.position
  IN  /\ ( /\ Completed
           /\ OpensWithDefault
           /\ m = Len(source) - 1
           /\ inner.tag = "Err"
           /\ \/ inner.err.kind \in ParseErrorKinds
              \/ FirstName \notin DOMAIN variables )
         => result = Shifted(inner, NameEnd + 1)
      /\ e.kind # "None" => p < Len(source)
      /\ e.kind = "InvalidEscapeSequence" => At(source, p) = Backslash
      /\ e.kind = "MissingVariableName" => At(source, p) = Dollar
      /\ e.kind = "UnexpectedCharacter"
           => e.character = CharOrByteAt(source, p)
      /\ e.kind = "MissingClosingBrace" => At(source, p) = LBrace
      /\ e.kind = "NoSuchVariable"
           => e.name = Slice(source, p, p + Len(e.name))

C16_Witness ==
  /\ call = "from_str"
  /\ OpensWithDefault
  /\ MatchingBrace(source, 1) = Len(source) - 1
  /\ result.err.kind = "InvalidEscapeSequence"
  /\ result.err.position = NameEnd + 2

(***************************************************************************)
(* Owned templates: the places that hold one, and the String a place got   *)
(* back from into_source.                                                  *)
(***************************************************************************)
Held == { b \in Slots : bufs[b].some }

Returned == { b \in Slots : strings[b] # 0 }

ReturnedText(b) == heap[strings[b]].data

(***************************************************************************)
(* C17: clones of an owned template are independent.  Whatever was done to *)
(* the other copies (consumed by into_source, the returned String written  *)
(* to or dropped, the copy dropped), every owned template that is held     *)
(* still refers to a live buffer of its own, its source() is the source it *)
(* was made from, and for every map the expansion of every held copy is    *)
(* the one result the expansion of that source gives: the copies expand to *)
(* identical results, before and after any operation on the others.        *)
(***************************************************************************)
C17_CloneIndependence ==
  /\ \A b \in Held :
       /\ bufs[b].template.source = bufs[b].source
       /\ heap[bufs[b].source].state = "live"
       /\ \A c \in Held \ {b} : bufs[c].source # bufs[b].source
       /\ \A c \in Returned : strings[c] # bufs[b].source
       /\ Template_source(bufs[b].template, heap) = source
  /\ \A m \in BufMaps :
       \A expected \in { ResultOf("expand", source, m) } :
         \A b \in Held :
           TemplateBuf_expand(bufs[b], heap, m).result = expected
  /\ call = "buf_expand" => result = ResultOf("expand", source, variables)

(* One copy was consumed by into_source and the String it returned was     *)
(* written to; then the other copy was expanded, with a substitution.      *)
C17_Witness ==
  /\ call = "buf_expand"
  /\ \E b \in Returned : ReturnedText(b) # source
  /\ \E c \in Held : Template_source(bufs[c].template, heap) = source
  /\ result.tag = "Ok"
  /\ lookups # << >>

(***************************************************************************)
(* C18: source round trip of the owned template.  from_string / from_vec   *)
(* succeed exactly when the source parses; from then on as_template()      *)
(* .source() of every held copy is the source that was passed in, and      *)
(* into_source() returns exactly that source, whatever expand calls,       *)
(* clones and moves came before.                                           *)
(***************************************************************************)
C18_SourceRoundTrip ==
  /\ call \in {"from_string", "from_vec"} =>
       /\ result.tag = Template_from_str(source).tag
       /\ result.tag # "Ok" => Held = {} /\ Returned = {}
  /\ \A b \in Held : Template_source(bufs[b].template, heap) = source
  /\ call = "into_source" => result = OkResult(source)

(* into_source of the original after it was expanded, cloned and moved to  *)
(* the second place.                                                       *)
C18_Witness ==
  /\ call = "into_source"
  /\ history # << >>
  /\ strings[2] = 1
  /\ heap[2].state # "unused"
  /\ source # << >>
  /\ result = OkResult(source)

(***************************************************************************)
(* C19: a parsed template is immutable.  Every expand call, successful or  *)
(* failing, leaves the parts and the source of every template as they      *)
(* were, and its result is the one the source and the map of that call     *)
(* determine, whatever calls came before: a failed expand does not change  *)
(* the result of a later one.                                              *)
(***************************************************************************)
C19_ExpandIsReadOnly ==
  [][ history' # history =>
        /\ bufs' = bufs
        /\ heap' = heap
        /\ strings' = strings
        /\ result' = ResultOf("expand", source, variables')
        /\ \A b \in Held :
             \A m \in BufMaps :
               TemplateBuf_expand(bufs'[b], heap', m).result
                 = TemplateBuf_expand(bufs[b], heap, m).result ]_vars

(* The one template made, never cloned, failed to expand under one map and *)
(* then expanded under another.                                            *)
C19_Witness ==
  /\ call = "buf_expand"
  /\ history = <<"Err", "Ok">>
  /\ heap[2].state = "unused"
  /\ result.tag = "Ok"
  /\ lookups # << >>

(***************************************************************************)
(* C20: text-oriented substitution returns valid UTF-8.  For a source and  *)
(* map values that are valid UTF-8, every cut of the parsed template (the  *)
(* ends of a literal, of a name, of a placeholder, of a default) is a      *)
(* character boundary of the source and every escaped byte is one whole    *)
(* character, and the String substitute, Template::expand and              *)
(* expand_template return is valid UTF-8.                                  *)
(***************************************************************************)
TextCalls == {"substitute", "from_str", "expand", "parse", "expand_template"}

RECURSIVE CutsOnBoundaries(_, _)
CutsOnBoundaries(parts, s) ==
  \A i \in 1..Len(parts) :
    LET part == parts[i]
    IN  /\ part.kind \in {"Literal", "Variable"} =>
             /\ is_char_boundary(s, part.start)
             /\ is_char_boundary(s, part.end)
        /\ part.kind = "EscapedChar" => part.value < 128
        /\ part.kind = "Variable" =>
             /\ is_char_boundary(s, part.name_start)
             /\ is_char_boundary(s, part.name_end)
             /\ part.default.some => CutsOnBoundaries(part.default.val, s)

C20_ValidUtf8 ==
  (/\ call \in TextCalls
   /\ is_utf8(source)
   /\ \A n \in DOMAIN variables : is_utf8(variables[n]))
  => /\ template.tag = "Ok" => CutsOnBoundaries(template.val, source)
     /\ result.tag = "Ok" => is_utf8(result.output)

(* "é$a" with a = "é" expanded by Template::expand: the literal ends after *)
(* the second byte of the é.                                               *)
C20_Witness ==
  /\ call = "expand"
  /\ source = EAcute \o <<Dollar, ChA>>
  /\ result = OkResult(EAcute \o EAcute)

(***************************************************************************)
(* C21: byte-oriented substitution is total on arbitrary bytes.  Every     *)
(* call of substitute_bytes, ByteTemplate::from_slice and                  *)
(* ByteTemplate::expand returns an output or one error and never panics;   *)
(* the position of the error is an offset inside the source; and the       *)
(* character the error carries is the scalar value that starts at the      *)
(* offending offset when one does, the raw byte otherwise.                 *)
(***************************************************************************)
ByteCalls == {"substitute_bytes", "from_slice", "expand_bytes"}

C21_BytesTotal ==
  call \in ByteCalls =>
    LET e == result.err
    IN  /\ result.tag \in {"Ok", "Err"}
        /\ result.tag = "Err" =>
             /\ e.kind # "None"
             /\ e.position < Len(source)
             /\ e.kind = "UnexpectedCharacter" =>
                  e.character = CharOrByteAt(source, e.position)
             /\ e.kind = "InvalidEscapeSequence" =>
                  /\ At(source, e.position) = Backslash
                  /\ e.character =
                       IF e.position + 1 < Len(source)
                         THEN CharOrByteAt(source, e.position + 1)
                         ELSE NoChar

(***************************************************************************)
(* The line of text s around offset p: from after the last line break      *)
(* before p up to the first line break at or after p.                      *)
(***************************************************************************)
NoBreak(s, lo, hi) == \A i \in lo..(hi - 1) : At(s, i) \notin LineBreaks

LineStartOf(s, p) ==
  CHOOSE i \in 0..p :
    NoBreak(s, i, p) /\ \A j \in 0..(i - 1) : ~NoBreak(s, j, p)

LineEndOf(s, p) ==
  CHOOSE i \in p..Len(s) :
    NoBreak(s, p, i) /\ \A j \in (i + 1)..Len(s) : ~NoBreak(s, p, j)

(***************************************************************************)
(* C22: for an error on any line of the source, the first or a later one,  *)
(* whose line is at most 60 columns wide, source_highlighting is two       *)
(* spaces and the line that holds the start of the error, then two spaces, *)
(* as many spaces as the text of that line before the error is wide, and   *)
(* as many "^" as the range of the error is wide.                          *)
(***************************************************************************)
C22_Highlighting ==
  LET r == Error_source_range(result.err)
      ls == LineStartOf(source, r.start)
      le == LineEndOf(source, r.start)
  IN  ( /\ highlighting.some
        /\ width(Slice(source, ls, le)) <= MaxLineWidth )
      => highlighting.val =
           Ok(<<Space, Space>> \o Slice(source, ls, le)
                \o <<NewLine, Space, Space>>
                \o repeat(Space, width(Slice(source, ls, r.start)))
                \o repeat(Caret, width(Slice(source, r.start, r.end)))
                \o <<NewLine>>)

(***************************************************************************)
(* C29: for every error returned for a text source, source_range() lies    *)
(* inside the span of the line source_line() returns for it: it starts at  *)
(* or after the start of the line, ends at or before its end and holds no  *)
(* line break; and the slices the highlighting takes are in bounds, so     *)
(* source_highlighting does not panic.                                     *)
(***************************************************************************)
C29_RangeInsideLine ==
  /\ (range.some /\ line.some) =>
       LET ls == LineStartOf(source, range.val.start)
           le == LineEndOf(source, range.val.start)
       IN  /\ line.val = Ok(Slice(source, ls, le))
           /\ ls <= range.val.start
           /\ range.val.end <= le
           /\ NoBreak(source, range.val.start, range.val.end)
  /\ highlighting.some => highlighting.val.tag = "Ok"

(***************************************************************************)
(* C23: parse-once and one-shot substitution agree.  For every source and  *)
(* map, Template::from_str followed by expand (ByteTemplate::from_slice    *)
(* followed by expand) and substitute (substitute_bytes) have the same     *)
(* outcome: the same output, or an error of the same kind at the same      *)
(* position.                                                               *)
(***************************************************************************)
SameOutcome(r, q) ==
  /\ r.tag = q.tag
  /\ r.tag \in {"Ok", "Err"}
  /\ r.output = q.output
  /\ r.err.kind = q.err.kind
  /\ r.err.position = q.err.position

C23_ParseOnceAgrees ==
  Completed =>
    SameOutcome(result,
                ResultOf(IF call \in {"substitute", "substitute_bytes"}
                           THEN "expand" ELSE "substitute",
                         source, variables))

(***************************************************************************)
(* C24: escaping round trip.  The text s with every backslash that stands  *)
(* before a "\", "$", "{", "}" or ":" taken out; a source is the escaped    *)
(* form of a byte string exactly when escaping that text gives the source  *)
(* back.  Such a source parses without error, has no variable, makes no    *)
(* lookup and substitutes to exactly that byte string under every map.     *)
(***************************************************************************)
RECURSIVE Unescaped(_)
Unescaped(s) ==
  IF s = << >> THEN << >>
  ELSE IF Head(s) = Backslash /\ Len(s) > 1
    THEN <<s[2]>> \o Unescaped(Tail(Tail(s)))
    ELSE <<Head(s)>> \o Unescaped(Tail(s))

C24_EscapingRoundTrip ==
  Escaped(Unescaped(source)) = source =>
    /\ Completed => result = OkResult(Unescaped(source))
    /\ call # "none" =>
         /\ template.tag = "Ok"
         /\ \A i \in 1..Len(template.val) :
              template.val[i].kind \in {"Literal", "EscapedChar"}
         /\ lookups = << >>

(* "\$a\}" substituted under a map that has a value for a *)
C24_Witness ==
  /\ call = "substitute"
  /\ source = Escaped(<<Dollar, ChA, RBrace>>)
  /\ <<ChA>> \in DOMAIN variables
  /\ result = OkResult(<<Dollar, ChA, RBrace>>)

(***************************************************************************)
(* The parts of a template laid over the bytes at..to of s, in order: the  *)
(* offset after the last part when each part starts where the one before   *)
(* it ended, a literal is non-empty, holds no "$" and no "\" and follows  *)
(* no other literal, an escaped byte stands for a backslash and that byte, *)
(* a variable for "$NAME", "${NAME}" or "${NAME:" default "}" with the     *)
(* parts of the default laid over the bytes between the ":" and the "}",   *)
(* and no part ends after to; -1 otherwise.  stored tells whether the      *)
(* variables keep their own extent (lib.rs) or not (raw).                  *)
(***************************************************************************)
RECURSIVE CoverFrom(_, _, _, _, _, _)
CoverVariable(p, s, at, to, stored) ==
  LET braced == at + 1 < to /\ At(s, at + 1) = LBrace
      named == /\ p.name_start = (IF braced THEN at + 2 ELSE at + 1)
               /\ p.name_end > p.name_start
               /\ p.name_end <= to
      after == IF ~braced THEN p.name_end
               ELSE IF ~p.default.some
                 THEN IF p.name_end < to /\ At(s, p.name_end) = RBrace
                        THEN p.name_end + 1 ELSE -1
               ELSE IF p.name_end < to /\ At(s, p.name_end) = Colon
                 THEN LET d == CoverFrom(p.default.val, 1, s, p.name_end + 1,
                                         to - 1, stored)
                      IN  IF d # -1 /\ d < to /\ At(s, d) = RBrace
                            THEN d + 1 ELSE -1
               ELSE -1
  IN  IF /\ at < to
         /\ At(s, at) = Dollar
         /\ named
         /\ ~braced => ~p.default.some
         /\ after # -1
         /\ stored => p.start = at /\ p.end = after
        THEN after
        ELSE -1

CoverFrom(parts, i, s, at, to, stored) ==
  IF at = -1 \/ at > to THEN -1
  ELSE IF i > Len(parts) THEN at
  ELSE LET p == parts[i]
           next ==
             CASE p.kind = "Literal" ->
                    IF /\ p.start = at
                       /\ p.end > p.start
                       /\ p.end <= to
                       /\ NoSpecial(Slice(s, p.start, p.end))
                       /\ i > 1 => parts[i - 1].kind # "Literal"
                      THEN p.end ELSE -1
               [] p.kind = "EscapedChar" ->
                    IF /\ at + 2 <= to
                       /\ At(s, at) = Backslash
                       /\ At(s, at + 1) = p.value
                      THEN at + 2 ELSE -1
               [] p.kind = "Variable" -> CoverVariable(p, s, at, to, stored)
               [] OTHER -> -1
       IN  CoverFrom(parts, i + 1, s, next, to, stored)

(***************************************************************************)
(* C25: coverage invariant of a parsed template.  At every nesting level   *)
(* the parts, in order, account for each byte of the range that was        *)
(* scanned exactly once, and no part extends past the end of that range.   *)
(***************************************************************************)
C25_Coverage ==
  template.tag = "Ok" =>
    CoverFrom(template.val, 1, source, 0, Len(source),
              call \in {"substitute", "substitute_bytes"}) = Len(source)

(***************************************************************************)
(* The map m with each value replaced by one byte that occurs in no source *)
(* and no value, and an output with those bytes replaced by the values of  *)
(* m again.                                                                *)
(***************************************************************************)
MarkOf(name) == IF name = <<ChA>> THEN 1 ELSE 2

Marked(m) == [n \in DOMAIN m |-> <<MarkOf(n)>>]

RECURSIVE Filled(_, _)
Filled(out, m) ==
  IF out = << >> THEN << >>
  ELSE LET named == { n \in DOMAIN m : MarkOf(n) = Head(out) }
       IN  (IF named = {} THEN <<Head(out)>> ELSE m[CHOOSE n \in named : TRUE])
             \o Filled(Tail(out), m)

(* The outcome of the last call, had it been made with the map m. *)
OutcomeWith(m) ==
  CASE call = "substitute" ->
         LET r == substitute(source, m)
         IN  [result |-> r.result, lookups |-> r.lookups]
    [] call = "substitute_bytes" ->
         LET r == substitute_bytes(source, m)
         IN  [result |-> r.result, lookups |-> r.lookups]
    [] call = "expand" ->
         LET r == Template_expand_string(template, source, m)
         IN  [result |-> r.result, lookups |-> r.lookups]

(***************************************************************************)
(* C26: values are inserted verbatim and never scanned.  A call with       *)
(* values that hold "$", "\", "{", "}" and ":" ends as the same call with  *)
(* one plain byte per value does: with the same error or panic, after the  *)
(* same lookups, and with an output that differs only in that each plain   *)
(* byte is replaced by the whole value.                                    *)
(***************************************************************************)
C26_ValuesVerbatim ==
  call \in {"substitute", "substitute_bytes", "expand"} =>
    \A plain \in { OutcomeWith(Marked(variables)) } :
      /\ result.tag = plain.result.tag
      /\ result.err = plain.result.err
      /\ lookups = plain.lookups
      /\ result.output = Filled(plain.result.output, variables)

C26_Witness ==
  /\ call = "substitute"
  /\ source = <<Dollar, LBrace, ChA, Colon, Dollar, ChB, Bang, RBrace>>
  /\ DOMAIN variables = { <<ChB>> }
  /\ lookups = << <<ChA>>, <<ChB>> >>
  /\ result = [tag |-> "Ok",
               output |-> <<Backslash, Colon, Dollar, ChA, Bang>>,
               err |-> NoError]

(***************************************************************************)
(* The offset at which a part that starts at offset at ends, and the       *)
(* cursor after the parts i.. of a scan that stands at offset at.          *)
(***************************************************************************)
RECURSIVE WalkEnd(_, _, _, _, _)
PartEnd(p, s, at, stored) ==
  CASE p.kind = "Literal" -> p.end
    [] p.kind = "EscapedChar" -> at + 2
    [] p.kind = "Variable" ->
         IF stored THEN p.end
         ELSE IF p.default.some
           THEN WalkEnd(p.default.val, 1, s, p.name_end + 1, stored) + 1
         ELSE IF At(s, p.name_start - 1) = LBrace THEN p.name_end + 1
         ELSE p.name_end

WalkEnd(parts, i, s, at, stored) ==
  IF i > Len(parts) THEN at
  ELSE WalkEnd(parts, i + 1, s, PartEnd(parts[i], s, at, stored), stored)

(* Every step of the scan of the parts i.. from offset at moves the cursor *)
(* forward and not past to, and the default of a placeholder is scanned    *)
(* over a range that starts after the start of the placeholder, is         *)
(* strictly shorter than it, and is itself scanned in such steps.          *)
RECURSIVE Advances(_, _, _, _, _, _)
Advances(parts, i, s, at, to, stored) ==
  IF i > Len(parts) THEN TRUE
  ELSE LET p == parts[i]
           e == PartEnd(p, s, at, stored)
       IN  /\ e > at
           /\ e <= to
           /\ IF p.kind = "Variable" /\ p.default.some
                THEN /\ p.name_end + 1 > at
                     /\ (e - 1) - (p.name_end + 1) < e - at
                     /\ Advances(p.default.val, 1, s, p.name_end + 1, e, stored)
                ELSE TRUE
           /\ Advances(parts, i + 1, s, e, to, stored)

(* The nesting depth of the defaults of a template. *)
RECURSIVE Depth(_)
Depth(parts) ==
  LET nested == { i \in DOMAIN parts :
                    parts[i].kind = "Variable" /\ parts[i].default.some }
      depths == { 1 + Depth(parts[i].default.val) : i \in nested }
  IN  IF depths = {} THEN 0
      ELSE CHOOSE d \in depths : \A other \in depths : other <= d

OpenBraces(s) == Cardinality({ i \in DOMAIN s : s[i] = LBrace })

(***************************************************************************)
(* C28: parsing terminates.  In every parsed template each step of the     *)
(* scan loop has moved the cursor forward by at least one byte, the        *)
(* default of a placeholder covers a strictly shorter range than the       *)
(* placeholder, and the defaults are nested no deeper than the number of   *)
(* "{" bytes of the source.                                                *)
(***************************************************************************)
C28_Terminates ==
  template.tag = "Ok" =>
    /\ Advances(template.val, 1, source, 0, Len(source),
                call \in {"substitute", "substitute_bytes"})
    /\ Depth(template.val) <= OpenBraces(source)

C28_Witness ==
  /\ call = "from_str"
  /\ source = <<Dollar, LBrace, ChA, Colon,
                Dollar, LBrace, ChB, Colon, Bang, RBrace, RBrace>>
  /\ template.tag = "Ok"
  /\ Depth(template.val) = 2
  /\ OpenBraces(source) = 2

(* The strings returned by the calls of substitute_one, one after another. *)
RECURSIVE Joined(_)
Joined(done) ==
  IF done = << >> THEN << >>
  ELSE Joined(SubSeq(done, 1, Len(done) - 1)) \o done[Len(done)].output

(* The caller has got (0, "") from substitute_one. *)
SteppedThrough ==
  /\ steps # << >>
  /\ steps[Len(steps)].tag = "Ok"
  /\ steps[Len(steps)].count = 0

(***************************************************************************)
(* C27: step-wise substitution agrees with substitute.  With the default   *)
(* parser, a call of substitute_one that returns on a non-empty suffix     *)
(* returns a count of at least 1 and at most the length of the suffix, and *)
(* (0, "") on the empty suffix; once (0, "") is returned the counts sum to *)
(* the length of the source and the strings, one after another, are what   *)
(* substitute returns for the source; and a call fails only on a source on *)
(* which substitute fails.                                                 *)
(***************************************************************************)
C27_StepwiseAgrees ==
  (call = "substitute_one" /\ parser) =>
    \A one \in { substitute(source, variables).result } :
      /\ \A i \in DOMAIN steps :
           steps[i].tag = "Ok" =>
             LET left == Len(source) - Consumed(SubSeq(steps, 1, i - 1))
             IN  IF left > 0
                   THEN steps[i].count >= 1 /\ steps[i].count <= left
                   ELSE steps[i].count = 0 /\ steps[i].output = << >>
      /\ SteppedThrough =>
           /\ Consumed(steps) = Len(source)
           /\ one.tag = "Ok"
           /\ one.output = Joined(steps)
      /\ steps[Len(steps)].tag # "Ok" => one.tag # "Ok"

C27_Witness ==
  /\ parser
  /\ source = <<Dollar, One, Backslash, Dollar>>
  /\ DOMAIN variables = StepNames
  /\ SteppedThrough
  /\ Len(steps) = 3
  /\ steps[1].count = 2
  /\ steps[2].count = 2
  /\ Joined(steps) = <<ChW, Dollar>>

(***************************************************************************)
(* The rule for names without the flag: every name of the parts, those of  *)
(* the defaults included, starts with no digit or holds digits only.       *)
(***************************************************************************)
RECURSIVE DigitRule(_, _)
DigitRule(parts, s) ==
  \A i \in DOMAIN parts :
    parts[i].kind = "Variable" =>
      LET name == Slice(s, parts[i].name_start, parts[i].name_end)
      IN  /\ is_ascii_digit(name[1]) =>
               { k \in DOMAIN name : ~is_ascii_digit(name[k]) } = {}
          /\ parts[i].default.some => DigitRule(parts[i].default.val, s)

(* The suffix that call i of substitute_one was given. *)
SuffixOf(i) == Slice(source, Consumed(SubSeq(steps, 1, i - 1)), Len(source))

(* The name of the placeholder whose "$" is at offset p of s. *)
NameAt(s, p) ==
  LET start == IF p + 1 < Len(s) /\ At(s, p + 1) = LBrace THEN p + 2 ELSE p + 1
      others == { k \in start..(Len(s) - 1) : At(s, k) \notin NameBytes }
      end == IF others = {} THEN Len(s)
             ELSE CHOOSE k \in others : \A o \in others : k <= o
  IN  Slice(s, start, end)

(* The error of the flag: at the "$" of a name that starts with a digit    *)
(* and does not consist of digits only, with that digit as a byte.         *)
DigitError(e, s) ==
  /\ e.kind = "UnexpectedCharacter"
  /\ e.expected = "digit"
  /\ e.position < Len(s)
  /\ At(s, e.position) = Dollar
  /\ \A name \in { NameAt(s, e.position) } :
       /\ name # << >>
       /\ is_ascii_digit(name[1])
       /\ { k \in DOMAIN name : ~is_ascii_digit(name[k]) } # {}
       /\ e.character = Byte(name[1])

(***************************************************************************)
(* C30: the digit-start flag.  With allow_variable_name_starting_with_     *)
(* number = true no call fails on a digit at the start of a name.  With    *)
(* false, a call on a text that true parses ends as it does with true when *)
(* every name starts with no digit or consists of digits only, and fails   *)
(* with UnexpectedCharacter at a name that starts with a digit and holds   *)
(* another byte otherwise (at offset 0 when the placeholder's own name is  *)
(* the only such one); a call on a text that true rejects fails as well,   *)
(* in the same way or at such a name.                                      *)
(***************************************************************************)
C30_DigitStartFlag ==
  call = "substitute_one" =>
    \A i \in DOMAIN steps :
      \A text \in { SuffixOf(i) } :
        \A accepted \in
             { TemplateParser_parse_template_one_step(TRUE, 0, text,
                 [start |-> 0, end |-> Len(text)]) } :
          \A same \in
               { steps[i] =
                   VariableSubstituter_substitute_one(
                     [parse_cfg |-> TRUE,
                      expand_cfg |-> TemplateExpander_new(variables)], text) } :
            IF parser THEN steps[i].err.expected # "digit"
            ELSE IF accepted.tag # "Ok"
              THEN /\ steps[i].tag # "Ok"
                   /\ same \/ (steps[i].tag = "Err" /\ DigitError(steps[i].err, text))
            ELSE IF DigitRule(accepted.val, text) THEN same
            ELSE /\ steps[i].tag = "Err"
                 /\ DigitError(steps[i].err, text)
                 /\ (~accepted.val[1].default.some
                       \/ DigitRule(accepted.val[1].default.val, text)) =>
                      steps[i].err.position = 0

C30_Witness ==
  /\ ~parser
  /\ source = <<Dollar, One, Dollar, One, ChA>>
  /\ DOMAIN variables = StepNames
  /\ Len(steps) = 2
  /\ steps[1] = [NoStep EXCEPT !.tag = "Ok", !.count = 2, !.output = <<ChW>>,
                                !.lookups = << <<One>> >>]
  /\ steps[2] = [NoStep EXCEPT !.tag = "Err",
                                !.err = UnexpectedCharacter(0, Byte(One), "digit")]

====
